---- MODULE Spec2Model ----
\* Model of the disk-resident B-tree (src/btr.c) over the block allocator
\* (src/disk.c, src/bitmap.c) and of the write-back buffer pool
\* (src/cache.c, src/pci.c, src/lru.c, src/fl.c, src/gdl.c).
\*
\* Memory model of a B-tree node.  btree_node_create, btree_node_read and
\* btree_node_write place the node one byte into the page (the cast of
\* ptr + 1 at btr.c:22,56,73); several routines instead cast the page pointer
\* itself (the cast of get_block's result at btr.c:215,445,518,604,629,639).
\* The second view sees every field shifted by one byte on the little-endian
\* build: a field read yields 256 * (low seven bytes of the field) + (top
\* byte of what precedes it); a field write puts the low byte of the value
\* into the top byte of what precedes the field and the rest, shifted down,
\* into the field.  A 64-bit word is kept as the integer hi * TOP + lo, hi its
\* top byte and lo its low seven bytes (every lo of the model is below TOP, so
\* order and equality of words are those of the 64-bit values).
\*
\* keys[], children[], parent, left_sibling and right_sibling are twelve
\* consecutive 64-bit words (btr.h:22-26), so keys[4] is children[0] and
\* children[5] is parent; an index that leaves the twelve words leaves the
\* struct and the operation faults (fault = TRUE, the run stops there).
\*
\* The image is fresh (all zero) and, but in SpecSmall, large enough that
\* every block number a routine computes below TOP is inside it; SpecSmall is
\* the same program on an image of SmallImage blocks, where alloc_page runs
\* out of blocks.  The B-tree runs (Spec, SpecRun, SpecSmall) take get_block as handing out the cached page of the block: the pool has
\* the 16384 slots alloc_cache gives it at least (cache.c:173), so no page is
\* evicted there and a page pointer stays valid.  The pool's own lists, their
\* faults and the eviction are the subject of the pool specification (PoolSpec)
\* further down, which runs the pool's interface on a pool of CacheSize slots;
\* NodeSpec runs btree_node_create, btree_node_read and btree_node_write on
\* that pool.
\* SpecFar runs the calls with keys that are numbers of blocks no call
\* allocates, BuiltSpec runs one call on a tree of two levels of inner nodes
\* laid out with btree_node_create and btree_node_write, and SpecAsc inserts
\* the keys 1, 2, ... in ascending order.
EXTENDS Integers, Sequences, FiniteSets, TLC

MAX_KEYS == 4
MIN_KEYS == MAX_KEYS \div 2

\* Bounds of the exploration.
MaxOps == 5
MaxKey == 2
MaxVal == 2
MaxDepth == 4
MaxGarbage == 1

MaxBlk == 2 + 3 * MaxOps
Keys == 1..MaxKey
Vals == {100 + i : i \in 1..MaxVal}

TOP == 2^22
LoMax == (TOP \div 256) - 1
Hi(v) == v \div TOP
Lo(v) == v % TOP
NOTFOUND == 0 - 1
FAULTV == 0 - 2

\* Word indices of the node's array area (btr.h:22-26).
KEYS0 == 0
CH0 == MAX_KEYS
PARENT == CH0 + MAX_KEYS + 1
LEFT == PARENT + 1
RIGHT == LEFT + 1
NWORDS == RIGHT + 1
Words == 0..(NWORDS - 1)

ZeroNode ==
  [block_number |-> 0, is_leaf |-> FALSE, num_keys |-> 0, key |-> 0, value |-> 0,
   w |-> [i \in Words |-> 0]]

\* The BTreeNode locals of the routines (btr.c:337,347,441,446,454,708); a
\* recursive routine has one per frame.
LocNames ==
  {<<"target", 0>>, <<"parent", 0>>, <<"root", 0>>, <<"borrowed", 0>>,
   <<"upk_parent", 0>>, <<"sibling", 0>>, <<"child", 0>>}
    \cup {<<"grandparent", d>> : d \in 0..(MaxDepth + 1)}
    \cup {<<"child_a", d>> : d \in 0..(MaxDepth + 1)}

VARIABLES
  pg,       \* cached page of each block 1..MaxBlk, as the node stored one byte in
  used,     \* the bits set in the cached bitmap page (block 0)
  dirty0,   \* dirty_bit of the bitmap page's cache entry
  du,       \* the bits set in the bitmap on the device
  fault,    \* an operation left the modelled memory (the process is taken as stopped)
  ins,      \* history: key -> sequence of values btree_insert was called with
  dels,     \* history: keys btree_delete was called with
  mixed,    \* history: an insert came after a delete
  last,     \* history: the last completed call and what it returned
  nops,     \* number of calls made
  total_blocks, \* disk->total_blocks, the blocks of the image (disk.c:37)
  pool      \* the buffer pool: struct cache, its list nodes, the bitmap page

treevars == <<pg, used, dirty0, du, fault, ins, dels, mixed, last, nops, total_blocks>>
vars == <<pg, used, dirty0, du, fault, ins, dels, mixed, last, nops, total_blocks, pool>>

\* ---------------------------------------------------------------- memory

\* The operation state threaded through a routine: the pages, the bitmap, the
\* size of the image, the locals of the active frames and the fault flag.
MkState(p, u, d, k, t) ==
  [pg |-> p, used |-> u, dirty0 |-> d, du |-> k, total_blocks |-> t,
   loc |-> [n \in LocNames |-> ZeroNode], fault |-> FALSE]

Fault(s) == [s EXCEPT !.fault = TRUE]
Chk(s, v) == IF v = FAULTV THEN Fault(s) ELSE s

RECURSIVE Pow2(_)
Pow2(n) == IF n = 0 THEN 1 ELSE 2 * Pow2(n - 1)

RECURSIVE BitSum(_, _)
BitSum(S, lo) ==
  IF S = {} THEN 0
  ELSE LET b == CHOOSE x \in S : TRUE
       IN (IF b >= lo THEN Pow2(b - lo) ELSE 0) + BitSum(S \ {b}, lo)

\* Block 0 read as a node one byte in: block_number is bits 8..71 of the bitmap
\* (bitmap.c:7-22 packs bit i into word i/64 at position i%64); the other
\* fields lie in bits 72.., which no block of the model reaches.
BitmapNode(u) == [ZeroNode EXCEPT !.block_number = BitSum(u, 8)]

\* The cached page of block b, as get_block returns it (cache.c:10-73): a block
\* that never held a node is loaded from the zeroed image; a block number with
\* a top byte is keyed as such in the lookup map but read from the device at
\* its low 32 bits (disk_get_block takes an int, disk.c:57-61).
NodeAt(s, b) ==
  IF b \in 1..MaxBlk THEN s.pg[b]
  ELSE IF b = 0 THEN BitmapNode(s.used)
  ELSE ZeroNode

\* A read of block b takes the model out of its memory when b is negative or
\* the device copy of the bitmap would be read as a node with content.
BadBlock(s, b) ==
  \/ b < 0
  \/ Lo(b) > LoMax
  \/ (b >= TOP /\ Lo(b) = 0 /\ \E x \in s.du : x >= 8)

\* The node seen through a cast of the page pointer itself (one byte early).
RawView(n, tag) ==
  [block_number |-> 256 * (Lo(n.block_number) % (LoMax + 1)) + tag,
   is_leaf |-> Hi(n.block_number) # 0,
   num_keys |-> (256 * n.num_keys) % 65536,
   key |-> 0, value |-> 0,
   w |-> [i \in Words |->
            256 * (Lo(n.w[i]) % (LoMax + 1)) + (IF i > 0 THEN Hi(n.w[i - 1]) ELSE 0)]]

Tag(s, b) == IF b = 0 THEN BitSum({x \in s.used : x < 8}, 0) ELSE 0

\* A node pointer: <<"loc", name>> a local struct, <<"page", b>> the node of
\* block b one byte in, <<"raw", b>> the cast of block b's page pointer.
Get(s, r) ==
  IF r[1] = "loc" THEN s.loc[r[2]]
  ELSE IF r[1] = "page" THEN NodeAt(s, r[2])
  ELSE RawView(NodeAt(s, r[2]), Tag(s, r[2]))

Put(s, r, n) ==
  IF r[1] = "loc" THEN [s EXCEPT !.loc[r[2]] = n]
  ELSE IF r[2] \in 1..MaxBlk THEN [s EXCEPT !.pg[r[2]] = n]
  ELSE Fault(s)

\* p->keys[i], p->children[i], p->parent ... = v, i counted from keys[0].
SetW(s, r, i, v) ==
  IF s.fault THEN s
  ELSE IF i < 0 \/ i >= NWORDS \/ v < 0 \/ Lo(v) > LoMax THEN Fault(s)
  ELSE IF r[1] # "raw" THEN Put(s, r, [Get(s, r) EXCEPT !.w[i] = v])
  ELSE IF i = 0 \/ Hi(v) # 0 \/ r[2] \notin 1..MaxBlk THEN Fault(s)
  ELSE LET n == s.pg[r[2]]
       IN [s EXCEPT !.pg[r[2]] =
             [n EXCEPT !.w[i] = Hi(n.w[i]) * TOP + (v \div 256),
                       !.w[i - 1] = (v % 256) * TOP + Lo(n.w[i - 1])]]

GetW(s, r, i) == IF i < 0 \/ i >= NWORDS THEN 0 ELSE Get(s, r).w[i]

SetNumKeys(s, r, v) ==
  IF s.fault THEN s
  ELSE IF r[1] # "raw" THEN Put(s, r, [Get(s, r) EXCEPT !.num_keys = v % 65536])
  ELSE IF r[2] \notin 1..MaxBlk THEN Fault(s)
  ELSE [s EXCEPT !.pg[r[2]].num_keys = (@ \div 256) * 256 + ((v \div 256) % 256)]

SetIsLeaf(s, r, v) ==
  IF r[1] # "raw" THEN Put(s, r, [Get(s, r) EXCEPT !.is_leaf = v])
  ELSE IF r[2] \notin 1..MaxBlk THEN Fault(s)
  ELSE [s EXCEPT !.pg[r[2]].block_number = Lo(@) + (IF v THEN TOP ELSE 0)]

\* dst->w[di] = src->w[si]
CopyW(s, dst, di, src, si) == SetW(s, dst, di, GetW(s, src, si))

\* dst->w[di] = src->block_number
SetWBlockOf(s, dst, di, src) == SetW(s, dst, di, Get(s, src).block_number)

\* p->num_keys += d
AddNumKeys(s, r, d) == SetNumKeys(s, r, Get(s, r).num_keys + d)

\* The BTreeNode locals as node pointers.
loc_target == <<"loc", <<"target", 0>>>>
loc_parent == <<"loc", <<"parent", 0>>>>
loc_root == <<"loc", <<"root", 0>>>>
loc_borrowed == <<"loc", <<"borrowed", 0>>>>
loc_upk_parent == <<"loc", <<"upk_parent", 0>>>>
loc_sibling == <<"loc", <<"sibling", 0>>>>
loc_grandparent(d) == <<"loc", <<"grandparent", d>>>>
loc_child_a(d) == <<"loc", <<"child_a", d>>>>

\* ------------------------------------------------------------- allocator

\* alloc_page (disk.c:114-141): the first clear bit below total_blocks is set
\* and returned; -1 and nothing changed when there is none.
alloc_free(s) == {b \in 0..(s.total_blocks - 1) : b \notin s.used}

alloc_page(s) ==
  IF alloc_free(s) = {} THEN [s |-> s, rv |-> NOTFOUND]
  ELSE LET ii == CHOOSE b \in alloc_free(s) : \A c \in alloc_free(s) : b <= c
       IN [s |-> [s EXCEPT !.used = @ \cup {ii}, !.dirty0 = TRUE], rv |-> ii]

\* free_page that clears every bit up to the one asked for.
free_page_upto(s, pnum) ==
  IF pnum < 0 \/ pnum > LoMax THEN Fault(s)
  ELSE [s EXCEPT !.used = @ \ (0..pnum), !.dirty0 = TRUE]

free_page(s, pnum) ==
  IF pnum < 0 \/ pnum > LoMax THEN Fault(s)
  ELSE [s EXCEPT !.used = @ \ {pnum}, !.dirty0 = TRUE]

\* ------------------------------------------------------ node management

\* The node set up in the page alloc_page returned (btr.c:15-38).  The -1 of
\* alloc_page is not looked at: get_block(-1) reads the block before the image
\* (btr.c:16-19, disk.c:57-61), which is outside the modelled memory.
node_init(a, is_leaf) ==
  IF a.s.fault \/ a.rv < 1 THEN [s |-> Fault(a.s), rv |-> <<"page", a.rv>>]
  ELSE [s |-> [a.s EXCEPT !.pg[a.rv] =
                 [ZeroNode EXCEPT !.block_number = a.rv, !.is_leaf = is_leaf]],
        rv |-> <<"page", a.rv>>]

btree_node_create(s, is_leaf) == node_init(alloc_page(s), is_leaf)

btree_node_free(s, node) ==
  IF s.fault THEN s ELSE free_page(s, node.block_number)

\* btree_node_read(disk, cache, block_num, &local)
btree_node_read(s, block_num, name) ==
  IF BadBlock(s, block_num) THEN Fault(s)
  ELSE [s EXCEPT !.loc[name] = NodeAt(s, block_num)]

\* btree_node_write copies the struct over the node of block node->block_number;
\* over block 0 it replaces bits 8.. of the bitmap by the struct's bytes.
btree_node_write(s, node) ==
  IF node.block_number \in 1..MaxBlk THEN [s EXCEPT !.pg[node.block_number] = node]
  ELSE IF node.block_number = 0 THEN [s EXCEPT !.used = {x \in @ : x < 8}]
  ELSE Fault(s)

\* btree_node_write(disk, cache, &local)
write_local(s, r) == IF s.fault THEN s ELSE btree_node_write(s, Get(s, r))

\* -------------------------------------------------------------- queries

RECURSIVE btree_search(_, _, _, _)
RECURSIVE search_children(_, _, _, _, _)
search_children(s, node, i, key, fuel) ==
  IF i > node.num_keys THEN NOTFOUND
  ELSE IF node.w[CH0 + i] # 0
       THEN LET result == btree_search(s, node.w[CH0 + i], key, fuel - 1)
            IN IF result # NOTFOUND THEN result
               ELSE search_children(s, node, i + 1, key, fuel)
       ELSE search_children(s, node, i + 1, key, fuel)

\* btree_search with the leaf test node.key >= key in place of node.key == key.
btree_search_ge(s, node_block, key, fuel) ==
  IF fuel = 0 \/ BadBlock(s, node_block) THEN FAULTV
  ELSE LET node == NodeAt(s, node_block)
       IN IF node.is_leaf
          THEN IF node.key >= key THEN node.block_number ELSE NOTFOUND
          ELSE IF CH0 + node.num_keys >= NWORDS THEN FAULTV
          ELSE search_children(s, node, 0, key, fuel)

btree_search(s, node_block, key, fuel) ==
  IF fuel = 0 \/ BadBlock(s, node_block) THEN FAULTV
  ELSE LET node == NodeAt(s, node_block)
       IN IF node.is_leaf
          THEN IF node.key = key THEN node.block_number ELSE NOTFOUND
          ELSE IF CH0 + node.num_keys >= NWORDS THEN FAULTV
          ELSE search_children(s, node, 0, key, fuel)

RECURSIVE btree_find_depth(_, _, _)
btree_find_depth(s, node_block, fuel) ==
  IF fuel = 0 \/ BadBlock(s, node_block) THEN FAULTV
  ELSE LET node == NodeAt(s, node_block)
       IN IF node.is_leaf THEN 0
          ELSE IF node.w[CH0] # 0
               THEN LET d == btree_find_depth(s, node.w[CH0], fuel - 1)
                    IN IF d < 0 THEN d ELSE d + 1
               ELSE NOTFOUND

RECURSIVE btree_find_maximum(_, _, _)
RECURSIVE max_child(_, _, _, _)
max_child(s, root, i, fuel) ==
  IF i < 0 THEN 0
  ELSE IF root.w[CH0 + i] # 0 THEN btree_find_maximum(s, root.w[CH0 + i], fuel - 1)
  ELSE max_child(s, root, i - 1, fuel)

btree_find_maximum(s, root_block, fuel) ==
  IF fuel = 0 \/ BadBlock(s, root_block) THEN FAULTV
  ELSE LET root == NodeAt(s, root_block)
       IN IF root.is_leaf THEN root.key
          ELSE IF CH0 + root.num_keys >= NWORDS THEN FAULTV
          ELSE max_child(s, root, root.num_keys, fuel)

FindMax(s, b) == btree_find_maximum(s, b, MaxDepth + 2)
FindDepth(s, b) == btree_find_depth(s, b, MaxDepth + 2)

\* ------------------------------------------------------------- insertion

\* for (i = 0; i < MAX_KEYS && n.keys[i] < key && n.keys[i] != 0; i++);
\* (btr.c:350, 444, 457, 463, 711)
RECURSIVE key_slot(_, _, _)
key_slot(n, key, i) ==
  IF i < MAX_KEYS /\ n.w[KEYS0 + i] < key /\ n.w[KEYS0 + i] # 0
  THEN key_slot(n, key, i + 1) ELSE i

\* What the position loop of btree_insert_nonfull compares the new key with
\* for the child in block c (btr.c:215-219): the child is looked at through
\* the cast of its page pointer.
raw_child_max(s, c) ==
  IF Get(s, <<"raw", c>>).is_leaf THEN FAULTV
  ELSE FindMax(s, Get(s, <<"raw", c>>).block_number)

\* btr.c:212-225
RECURSIVE nonfull_child_pos(_, _, _, _, _)
nonfull_child_pos(s, root, key, j, child_pos) ==
  IF j > root.num_keys THEN child_pos
  ELSE IF CH0 + j >= NWORDS \/ BadBlock(s, root.w[CH0 + j]) THEN FAULTV
  ELSE IF root.w[CH0 + j] = 0 THEN nonfull_child_pos(s, root, key, j + 1, child_pos)
  ELSE IF raw_child_max(s, root.w[CH0 + j]) = FAULTV THEN FAULTV
  ELSE nonfull_child_pos(s, root, key, j + 1,
                         IF raw_child_max(s, root.w[CH0 + j]) < key
                         THEN j + 1 ELSE child_pos)

\* for (j = num_keys; j >= child_pos; j--) children[j+1] = children[j]  (btr.c:228-230)
RECURSIVE nonfull_shift(_, _, _, _)
nonfull_shift(s, r, j, child_pos) ==
  IF j < child_pos \/ s.fault THEN s
  ELSE nonfull_shift(CopyW(s, r, CH0 + j + 1, r, CH0 + j), r, j - 1, child_pos)

\* p->keys[i] = btree_find_maximum(c)
set_key_max(s, r, i, c) ==
  IF FindMax(s, c) = FAULTV THEN Fault(s) ELSE SetW(s, r, i, FindMax(s, c))

\* for (i = 0; i < p->num_keys; i++) if (p->children[i] != 0)
\*   p->keys[i] = btree_find_maximum(p->children[i])        (btr.c:238-242,
\* 321-325, 622-626, 653-657)
RECURSIVE refresh_keys(_, _, _)
refresh_keys(s, r, i) ==
  IF s.fault \/ i >= Get(s, r).num_keys THEN s
  ELSE IF CH0 + i >= NWORDS THEN Fault(s)
  ELSE IF GetW(s, r, CH0 + i) = 0 THEN refresh_keys(s, r, i + 1)
  ELSE refresh_keys(set_key_max(s, r, KEYS0 + i, GetW(s, r, CH0 + i)), r, i + 1)

\* btr.c:227-242 once child_pos is known
nonfull_place(s, root, node, child_pos) ==
  IF child_pos = FAULTV THEN Fault(s)
  ELSE refresh_keys(
         AddNumKeys(
           SetWBlockOf(
             SetWBlockOf(nonfull_shift(s, root, Get(s, root).num_keys, child_pos),
                         root, CH0 + child_pos, node),
             node, PARENT, root),
           root, 1),
         root, 0)

btree_insert_nonfull(s, root, node) ==
  IF s.fault \/ Get(s, root).is_leaf THEN s
  ELSE nonfull_place(s, root, node,
                     nonfull_child_pos(s, Get(s, root), Get(s, node).key, 0, 0))

\* The descent of btree_insertion_search (btr.c:264-306); node is the local copy.
RECURSIVE ins_child_index(_, _, _, _, _)
ins_child_index(s, node, key, i, child_index) ==
  IF i >= node.num_keys THEN child_index
  ELSE IF CH0 + i >= NWORDS THEN FAULTV
  ELSE IF node.w[CH0 + i] = 0 THEN ins_child_index(s, node, key, i + 1, child_index)
  ELSE IF FindMax(s, node.w[CH0 + i]) = FAULTV THEN FAULTV
  ELSE IF key <= FindMax(s, node.w[CH0 + i]) THEN i
  ELSE ins_child_index(s, node, key, i + 1, i + 1)

RECURSIVE last_child(_, _)
last_child(node, i) ==
  IF i < 0 THEN 0
  ELSE IF node.w[CH0 + i] # 0 THEN node.w[CH0 + i]
  ELSE last_child(node, i - 1)

\* The block the descent reads next from child_index (btr.c:281-299), 0 for none.
ins_next(node, ci) ==
  IF ci = FAULTV \/ CH0 + (IF ci > node.num_keys THEN node.num_keys ELSE ci) >= NWORDS
  THEN FAULTV
  ELSE IF node.w[CH0 + (IF ci > node.num_keys THEN node.num_keys ELSE ci)] # 0
  THEN node.w[CH0 + (IF ci > node.num_keys THEN node.num_keys ELSE ci)]
  ELSE last_child(node, node.num_keys)

RECURSIVE ins_descend(_, _, _, _, _, _)
RECURSIVE ins_step(_, _, _, _, _, _, _)
ins_step(s, root_block, node, key, current_depth, fuel, next) ==
  IF next = FAULTV THEN FAULTV
  ELSE IF next = 0 THEN node.block_number
  ELSE IF BadBlock(s, next) THEN FAULTV
  ELSE ins_descend(s, root_block, NodeAt(s, next), key, current_depth + 1, fuel - 1)

ins_descend(s, root_block, node, key, current_depth, fuel) ==
  IF fuel = 0 \/ FindDepth(s, root_block) = FAULTV THEN FAULTV
  ELSE IF ~(current_depth < FindDepth(s, root_block) - 1) THEN node.block_number
  ELSE IF CH0 + node.num_keys >= NWORDS THEN FAULTV
  ELSE ins_step(s, root_block, node, key, current_depth, fuel,
                ins_next(node, ins_child_index(s, node, key, 0, 0)))

btree_insertion_search(s, root_block, key) ==
  IF BadBlock(s, root_block) THEN FAULTV
  ELSE IF NodeAt(s, root_block).w[CH0] = 0 THEN NodeAt(s, root_block).block_number
  ELSE IF FindDepth(s, root_block) = FAULTV THEN FAULTV
  ELSE IF FindDepth(s, root_block) - 1 <= 0 THEN NodeAt(s, root_block).block_number
  ELSE ins_descend(s, root_block, NodeAt(s, root_block), key, 0, MaxDepth + 2)

\* btree_update_parent_keys(node): node->parent is read through the pointer given.
btree_update_parent_keys(s, node) ==
  IF s.fault \/ Get(s, node).w[PARENT] = 0 THEN s
  ELSE IF BadBlock(s, Get(s, node).w[PARENT]) THEN Fault(s)
  ELSE write_local(
         refresh_keys(Put(s, loc_upk_parent, NodeAt(s, Get(s, node).w[PARENT])),
                      loc_upk_parent, 0),
         loc_upk_parent)

\* child->parent = v through the cast of the page pointer of block c
\* (btr.c:517-520, 524-527, 535-538, 541-545, 603-606); nothing when c = 0.
Reparent(s, c, v) ==
  IF c = 0 \/ s.fault THEN s ELSE SetW(s, <<"raw", c>>, PARENT, v)

\* The same for the block held in src->w[si].
ReparentChild(s, src, si, v) == Reparent(s, GetW(s, src, si), v)

\* btr.c:514-522
RECURSIVE split_root_a(_, _, _, _)
split_root_a(s, root, a, i) ==
  IF i >= MIN_KEYS \/ s.fault THEN s
  ELSE split_root_a(
         AddNumKeys(
           ReparentChild(
             CopyW(CopyW(s, a, KEYS0 + i, root, KEYS0 + i), a, CH0 + i, root, CH0 + i),
             root, CH0 + i, a[2]),
           a, 1),
         root, a, i + 1)

\* btr.c:529-532
RECURSIVE split_root_bk(_, _, _, _)
split_root_bk(s, root, b, i) ==
  IF s.fault \/ i >= Get(s, root).num_keys THEN s
  ELSE IF KEYS0 + i >= NWORDS THEN Fault(s)
  ELSE split_root_bk(
         AddNumKeys(CopyW(s, b, KEYS0 + i - MIN_KEYS - 1, root, KEYS0 + i), b, 1),
         root, b, i + 1)

\* btr.c:533-539
RECURSIVE split_root_bc(_, _, _, _)
split_root_bc(s, root, b, i) ==
  IF s.fault \/ i > Get(s, root).num_keys THEN s
  ELSE IF CH0 + i >= NWORDS THEN Fault(s)
  ELSE split_root_bc(
         ReparentChild(CopyW(s, b, CH0 + i - MIN_KEYS - 1, root, CH0 + i),
                       root, CH0 + i, b[2]),
         root, b, i + 1)

\* btr.c:541-545
split_root_last(s, root, b) ==
  IF s.fault \/ GetW(s, root, CH0 + MAX_KEYS) = 0 THEN s
  ELSE ReparentChild(CopyW(s, b, CH0 + Get(s, b).num_keys, root, CH0 + MAX_KEYS),
                     root, CH0 + MAX_KEYS, b[2])

RECURSIVE clear_words(_, _, _, _)
clear_words(s, r, i, hi) ==
  IF i > hi \/ s.fault THEN s ELSE clear_words(SetW(s, r, i, 0), r, i + 1, hi)

\* btr.c:511-545: the two new nodes are filled from the root.
split_root_fill(s, root, a, b) ==
  split_root_last(
    split_root_bc(
      split_root_bk(
        ReparentChild(
          CopyW(split_root_a(SetW(SetW(s, a, RIGHT, b[2]), b, LEFT, a[2]), root, a, 0),
                a, CH0 + MIN_KEYS, root, CH0 + MIN_KEYS),
          root, CH0 + MIN_KEYS, a[2]),
        root, b, MIN_KEYS + 1),
      root, b, MIN_KEYS + 1),
    root, b)

\* btr.c:547-562: the root is rewritten over the two new nodes.
split_root_top(s, root, a, b) ==
  set_key_max(
    SetWBlockOf(
      SetWBlockOf(
        clear_words(
          clear_words(
            SetW(SetW(SetNumKeys(SetIsLeaf(s, root, FALSE), root, 1), root, CH0, a[2]),
                 root, CH0 + 1, b[2]),
            root, KEYS0 + 1, KEYS0 + MAX_KEYS - 1),
          root, CH0 + 2, CH0 + MAX_KEYS),
        a, PARENT, root),
      b, PARENT, root),
    root, KEYS0, a[2])

split_root_b(cb, root, a) ==
  IF cb.s.fault THEN cb.s
  ELSE split_root_top(split_root_fill(cb.s, root, a, cb.rv), root, a, cb.rv)

split_root_nodes(ca, root) ==
  IF ca.s.fault THEN ca.s ELSE split_root_b(btree_node_create(ca.s, FALSE), root, ca.rv)

btree_split_root(s, root) ==
  IF s.fault THEN s ELSE split_root_nodes(btree_node_create(s, FALSE), root)

\* btr.c:595-599
RECURSIVE split_child_k(_, _, _, _)
split_child_k(s, child, b, i) ==
  IF s.fault \/ i >= Get(s, child).num_keys THEN s
  ELSE IF KEYS0 + i >= NWORDS THEN Fault(s)
  ELSE split_child_k(
         AddNumKeys(
           SetW(CopyW(s, b, KEYS0 + i - MIN_KEYS - 1, child, KEYS0 + i),
                child, KEYS0 + i, 0),
           b, 1),
         child, b, i + 1)

\* btr.c:601-608
RECURSIVE split_child_c(_, _, _, _)
split_child_c(s, child, b, i) ==
  IF s.fault \/ i > Get(s, child).num_keys THEN s
  ELSE IF CH0 + i >= NWORDS THEN Fault(s)
  ELSE split_child_c(
         SetW(ReparentChild(CopyW(s, b, CH0 + i - MIN_KEYS - 1, child, CH0 + i),
                            b, CH0 + i - MIN_KEYS - 1, b[2]),
              child, CH0 + i, 0),
         child, b, i + 1)

\* for (i = p->num_keys; i > index; i--) p->children[i+1] = p->children[i]
\* (btr.c:614-616, 646-648)
RECURSIVE shift_up(_, _, _, _)
shift_up(s, r, i, index) ==
  IF s.fault \/ i <= index THEN s
  ELSE shift_up(CopyW(s, r, CH0 + i + 1, r, CH0 + i), r, i - 1, index)

\* for (x = 0; x <= p->num_keys; x++) if (p->children[x] == bn) break;
\* (btr.c:631-633, 641-643)
RECURSIVE child_index_of(_, _, _, _)
child_index_of(s, r, bn, x) ==
  IF x > Get(s, r).num_keys THEN x
  ELSE IF CH0 + x >= NWORDS THEN FAULTV
  ELSE IF GetW(s, r, CH0 + x) = bn THEN x
  ELSE child_index_of(s, r, bn, x + 1)

\* btr.c:645-658
split_child_link(s, current_parent, new_index, b) ==
  IF s.fault \/ new_index = FAULTV THEN Fault(s)
  ELSE IF ~(Get(s, current_parent).num_keys < MAX_KEYS) THEN s
  ELSE refresh_keys(
         AddNumKeys(
           SetW(shift_up(s, current_parent, Get(s, current_parent).num_keys, new_index),
                current_parent, CH0 + new_index + 1, b[2]),
           current_parent, 1),
         current_parent, 0)

\* The tail of btree_split_child when the parent was full (btr.c:639-658).
split_child_tail(s, child, b) ==
  IF s.fault \/ BadBlock(s, Get(s, child).w[PARENT]) THEN Fault(s)
  ELSE split_child_link(s, <<"raw", Get(s, child).w[PARENT]>>,
                        child_index_of(s, <<"raw", Get(s, child).w[PARENT]>>,
                                       Get(s, child).block_number, 0),
                        b)

\* btr.c:591-611
split_child_fill(s, node, child, b) ==
  SetNumKeys(
    SetW(
      split_child_c(
        split_child_k(
          SetWBlockOf(SetW(SetWBlockOf(s, b, PARENT, node), child, RIGHT, b[2]),
                      b, LEFT, child),
          child, b, MIN_KEYS + 1),
        child, b, MIN_KEYS + 1),
      child, KEYS0 + MIN_KEYS, 0),
    child, MIN_KEYS)

\* btr.c:614-626
split_child_here(s, node, index, b) ==
  refresh_keys(
    AddNumKeys(
      SetWBlockOf(
        set_key_max(
          SetW(shift_up(s, node, Get(s, node).num_keys, index),
               node, CH0 + index + 1, b[2]),
          node, KEYS0 + index, b[2]),
        b, PARENT, node),
      node, 1),
    node, 0)

RECURSIVE btree_split_child(_, _, _, _, _)

\* btr.c:628-637
RECURSIVE split_child_up(_, _, _)
split_child_up(s, node, fuel) ==
  IF Get(s, node).w[PARENT] = 0 THEN btree_split_root(s, node)
  ELSE IF BadBlock(s, Get(s, node).w[PARENT]) THEN Fault(s)
  ELSE IF child_index_of(s, <<"raw", Get(s, node).w[PARENT]>>,
                         Get(s, node).block_number, 0) = FAULTV THEN Fault(s)
  ELSE btree_split_child(s, <<"raw", Get(s, node).w[PARENT]>>,
                         child_index_of(s, <<"raw", Get(s, node).w[PARENT]>>,
                                        Get(s, node).block_number, 0),
                         node, fuel - 1)

\* btr.c:613-659
RECURSIVE split_child_place(_, _, _, _, _, _)
split_child_place(s, node, index, child, b, fuel) ==
  IF s.fault THEN s
  ELSE IF Get(s, node).num_keys < MAX_KEYS THEN split_child_here(s, node, index, b)
  ELSE split_child_tail(split_child_up(s, node, fuel), child, b)

RECURSIVE split_child_b(_, _, _, _, _)
split_child_b(cb, node, index, child, fuel) ==
  IF cb.s.fault THEN cb.s
  ELSE split_child_place(split_child_fill(cb.s, node, child, cb.rv),
                         node, index, child, cb.rv, fuel)

btree_split_child(s, node, index, child, fuel) ==
  IF fuel = 0 \/ s.fault THEN Fault(s)
  ELSE split_child_b(btree_node_create(s, FALSE), node, index, child, fuel)

\* btr.c:347-351
insert_split_child(s, target) ==
  IF s.fault \/ FindMax(s, target.block_number) = FAULTV THEN Fault(s)
  ELSE btree_split_child(s, loc_parent,
                         key_slot(Get(s, loc_parent),
                                  FindMax(s, target.block_number), 0),
                         loc_target, MaxDepth + 1)

\* btr.c:346-358 up to the split
insert_split(s, target) ==
  IF target.w[PARENT] # 0
  THEN insert_split_child(btree_node_read(s, target.w[PARENT], loc_parent[2]), target)
  ELSE btree_split_root(s, loc_target)

\* target_block = btree_insertion_search(...); btree_node_read(..., &target)
\* (btr.c:336-338, 352-353, 356-357)
read_target(s, root_block, key) ==
  IF s.fault \/ btree_insertion_search(s, root_block, key) = FAULTV THEN Fault(s)
  ELSE btree_node_read(s, btree_insertion_search(s, root_block, key), loc_target[2])

\* btr.c:340-367
insert_place(s, target, node, root_block, key) ==
  IF target.num_keys = MAX_KEYS
  THEN IF target.w[KEYS0 + MAX_KEYS - 1] < key /\ target.w[CH0 + MAX_KEYS] = 0
       THEN SetW(SetW(s, loc_target, CH0 + MAX_KEYS, node[2]),
                 node, PARENT, target.block_number)
       ELSE write_local(
              btree_insert_nonfull(
                read_target(insert_split(s, target), root_block, key),
                loc_target, node),
              loc_target)
  ELSE write_local(btree_insert_nonfull(s, loc_target, node), loc_target)

\* btr.c:340-369
insert_target(s, node, root_block, key) ==
  IF s.fault THEN s
  ELSE btree_update_parent_keys(
         insert_place(s, Get(s, loc_target), node, root_block, key), node)

\* btr.c:332-338
insert_leaf(nc, root_block, key, value) ==
  IF nc.s.fault THEN nc.s
  ELSE insert_target(
         read_target([nc.s EXCEPT !.pg[nc.rv[2]].key = key, !.pg[nc.rv[2]].value = value],
                     root_block, key),
         nc.rv, root_block, key)

btree_insert(s, root_block, key, value) ==
  insert_leaf(btree_node_create(s, TRUE), root_block, key, value)

\* --------------------------------------------------------------- deletion

\* btr.c:390-398 on the local copy of the left sibling
RECURSIVE borrow_left_scan(_, _)
borrow_left_scan(n, i) ==
  IF i < 0 THEN [n |-> n, rv |-> NOTFOUND]
  ELSE IF n.w[CH0 + i] # 0
  THEN [n |-> [n EXCEPT !.w = [x \in Words |->
                                 IF x = CH0 + i THEN 0
                                 ELSE IF x = KEYS0 + i /\ i < n.num_keys THEN 0
                                 ELSE n.w[x]],
                        !.num_keys = (n.num_keys - 1) % 65536],
        rv |-> Lo(n.w[CH0 + i])]
  ELSE borrow_left_scan(n, i - 1)

\* btr.c:400-402
borrow_left_write(s, r) == [s |-> btree_node_write(s, r.n), rv |-> r.rv]

\* btr.c:383-402 with the sibling read
borrow_left_from(s, left_sibling) ==
  IF left_sibling.num_keys = MIN_KEYS THEN [s |-> s, rv |-> NOTFOUND]
  ELSE IF CH0 + left_sibling.num_keys >= NWORDS THEN [s |-> Fault(s), rv |-> NOTFOUND]
  ELSE borrow_left_write(s, borrow_left_scan(left_sibling, left_sibling.num_keys))

btree_borrow_left(s, node) ==
  IF Get(s, node).w[LEFT] = 0 THEN [s |-> s, rv |-> NOTFOUND]
  ELSE IF BadBlock(s, Get(s, node).w[LEFT]) THEN [s |-> Fault(s), rv |-> NOTFOUND]
  ELSE borrow_left_from(s, NodeAt(s, Get(s, node).w[LEFT]))

\* for (i = lo; i <= hi; i++) w[i] = w[i+1], in order over the twelve words
\* (btr.c:424-429, 465-472, 682-691)
RECURSIVE shift_down(_, _, _, _)
shift_down(s, r, i, hi) ==
  IF i > hi \/ s.fault THEN s
  ELSE shift_down(CopyW(s, r, i, r, i + 1), r, i + 1, hi)

\* btr.c:424-434 on the local copy of the right sibling
borrow_right_take(s) ==
  write_local(
    AddNumKeys(
      SetW(
        SetW(
          shift_down(shift_down(s, loc_sibling, KEYS0, KEYS0 + MAX_KEYS - 1),
                     loc_sibling, CH0, CH0 + MAX_KEYS),
          loc_sibling, KEYS0 + MAX_KEYS - 1, 0),
        loc_sibling, CH0 + MAX_KEYS, 0),
      loc_sibling, 0 - 1),
    loc_sibling)

\* btr.c:414-436 with the sibling read
borrow_right_from(s, right_sibling) ==
  IF right_sibling.num_keys = MIN_KEYS THEN [s |-> s, rv |-> NOTFOUND]
  ELSE [s |-> borrow_right_take(Put(s, loc_sibling, right_sibling)),
        rv |-> Lo(right_sibling.w[CH0])]

btree_borrow_right(s, node) ==
  IF Get(s, node).w[RIGHT] = 0 THEN [s |-> s, rv |-> NOTFOUND]
  ELSE IF BadBlock(s, Get(s, node).w[RIGHT]) THEN [s |-> Fault(s), rv |-> NOTFOUND]
  ELSE borrow_right_from(s, NodeAt(s, Get(s, node).w[RIGHT]))

\* btr.c:579-585
RECURSIVE promote_children(_, _, _)
promote_children(s, root, i) ==
  IF s.fault \/ i > Get(s, root).num_keys THEN s
  ELSE IF CH0 + i >= NWORDS THEN Fault(s)
  ELSE IF GetW(s, root, CH0 + i) = 0 THEN promote_children(s, root, i + 1)
  ELSE IF BadBlock(s, GetW(s, root, CH0 + i)) THEN Fault(s)
  ELSE promote_children(
         btree_node_write(s, [NodeAt(s, GetW(s, root, CH0 + i))
                                EXCEPT !.w[PARENT] = Get(s, root).block_number]),
         root, i + 1)

\* btr.c:572-585 with the first child read
promote_from(s, root, page, child) ==
  promote_children(
    btree_node_free(Put(s, root, [child EXCEPT !.block_number = page, !.w[PARENT] = 0]),
                    child),
    root, 0)

btree_promote_root(s, root) ==
  IF s.fault \/ BadBlock(s, GetW(s, root, CH0)) \/ root[1] = "raw" THEN Fault(s)
  ELSE promote_from(s, root, Get(s, root).block_number, NodeAt(s, GetW(s, root, CH0)))

\* btr.c:670-680 on the local copy child_a
merge_into_a(s, a, child_b) ==
  write_local(
    SetW(
      SetW(
        AddNumKeys(
          SetW(SetW(s, a, RIGHT, child_b.w[RIGHT]),
               a, KEYS0 + MIN_KEYS + 1, child_b.w[KEYS0]),
          a, 1),
        a, KEYS0 + MIN_KEYS + 1, child_b.w[CH0]),
      a, KEYS0 + MIN_KEYS + 2, child_b.w[CH0 + 1]),
    a)

\* btr.c:682-695
merge_close_gap(s, parent, index, child_b) ==
  AddNumKeys(
    btree_node_free(
      shift_down(
        SetW(shift_down(s, parent, KEYS0 + index + 1, KEYS0 + MAX_KEYS - 2),
             parent, KEYS0 + MAX_KEYS - 1, 0),
        parent, CH0 + index + 1, CH0 + MAX_KEYS - 1),
      child_b),
    parent, 0 - 1)

RECURSIVE btree_merge_children(_, _, _, _)

\* btr.c:708-712
RECURSIVE merge_up(_, _, _, _)
merge_up(s, parent, gp, d) ==
  IF s.fault \/ FindMax(s, Get(s, parent).block_number) = FAULTV THEN Fault(s)
  ELSE btree_merge_children(
         s, gp, key_slot(Get(s, gp), FindMax(s, Get(s, parent).block_number), 0), d + 1)

\* btr.c:706-713
RECURSIVE merge_borrow_right(_, _, _)
merge_borrow_right(br, parent, d) ==
  IF br.s.fault \/ br.rv # NOTFOUND THEN br.s
  ELSE merge_up(btree_node_read(br.s, Get(br.s, parent).w[PARENT],
                                loc_grandparent(d + 1)[2]),
                parent, loc_grandparent(d + 1), d)

\* btr.c:704-714
RECURSIVE merge_borrow_left(_, _, _)
merge_borrow_left(bl, parent, d) ==
  IF bl.s.fault \/ bl.rv # NOTFOUND THEN bl.s
  ELSE merge_borrow_right(btree_borrow_right(bl.s, parent), parent, d)

\* btr.c:697-716
RECURSIVE merge_rebalance(_, _, _)
merge_rebalance(s, parent, d) ==
  IF s.fault \/ ~(Get(s, parent).num_keys < MIN_KEYS) THEN s
  ELSE IF Get(s, parent).w[PARENT] = 0
  THEN IF GetW(s, parent, CH0 + 1) = 0 THEN btree_promote_root(s, parent) ELSE s
  ELSE merge_borrow_left(btree_borrow_left(s, parent), parent, d)

\* btr.c:666-716 with child_b read
RECURSIVE merge_pair(_, _, _, _, _)
merge_pair(s, parent, index, child_b, d) ==
  merge_rebalance(
    merge_close_gap(
      merge_into_a(Put(s, loc_child_a(d), NodeAt(s, GetW(s, parent, CH0 + index))),
                   loc_child_a(d), child_b),
      parent, index, child_b),
    parent, d)

btree_merge_children(s, parent, index, d) ==
  IF d > MaxDepth \/ s.fault THEN Fault(s)
  ELSE IF index = MAX_KEYS THEN btree_merge_children(s, parent, index - 1, d + 1)
  ELSE IF index < 0 \/ GetW(s, parent, CH0 + index) = 0
          \/ GetW(s, parent, CH0 + index + 1) = 0 THEN s
  ELSE IF BadBlock(s, GetW(s, parent, CH0 + index))
          \/ BadBlock(s, GetW(s, parent, CH0 + index + 1)) THEN Fault(s)
  ELSE merge_pair(s, parent, index, NodeAt(s, GetW(s, parent, CH0 + index + 1)), d)

\* btr.c:454-459
remove_merge(s, key) ==
  IF s.fault THEN s
  ELSE write_local(
         btree_merge_children(s, loc_grandparent(0),
                              key_slot(Get(s, loc_grandparent(0)), key, 0), 0),
         loc_grandparent(0))

\* btr.c:452-460
remove_borrow_right(br, r0, key) ==
  IF br.s.fault \/ br.rv # NOTFOUND THEN br
  ELSE [s |-> remove_merge(btree_node_read(br.s, r0.w[PARENT], loc_grandparent(0)[2]),
                           key),
        rv |-> NOTFOUND]

\* btr.c:450-461
remove_borrow_left(bl, r0, key) ==
  IF bl.s.fault \/ bl.rv # NOTFOUND THEN bl
  ELSE remove_borrow_right(btree_borrow_right(bl.s, loc_root), r0, key)

\* btr.c:447-462: the state and rv after the rebalancing; rv is assigned only
\* there and read at btr.c:482 in every case, uninit is the value the build
\* leaves in it otherwise.  remove_rebalance_right is the rebalancing that
\* asks the right sibling first.
remove_rebalance_right(s, r0, key, uninit) ==
  IF ~(r0.num_keys = MIN_KEYS /\ r0.w[PARENT] # 0) THEN [s |-> s, rv |-> uninit]
  ELSE remove_borrow_left(btree_borrow_right(s, loc_root), r0, key)

remove_rebalance(s, r0, key, uninit) ==
  IF ~(r0.num_keys = MIN_KEYS /\ r0.w[PARENT] # 0) THEN [s |-> s, rv |-> uninit]
  ELSE remove_borrow_left(btree_borrow_left(s, loc_root), r0, key)

\* btr.c:465-475
remove_shift(s, i, num_keys) ==
  SetNumKeys(
    SetW(
      SetW(
        shift_down(shift_down(s, loc_root, KEYS0 + i, KEYS0 + num_keys - 1),
                   loc_root, CH0 + i, CH0 + num_keys),
        loc_root, KEYS0 + num_keys - 1, 0),
      loc_root, CH0 + num_keys, 0),
    loc_root, num_keys - 1)

\* btr.c:476-480
remove_refill(s, root_block) ==
  IF s.fault \/ Get(s, loc_root).num_keys # 0 THEN s
  ELSE SetNumKeys(set_key_max(s, loc_root, KEYS0, root_block), loc_root, 1)

\* btr.c:482-485
remove_borrowed(s, rv) ==
  IF s.fault \/ rv = NOTFOUND THEN s
  ELSE btree_insert_nonfull(btree_node_read(s, rv, loc_borrowed[2]),
                            loc_root, loc_borrowed)

\* btr.c:486-487
remove_finish(s, node) ==
  IF s.fault \/ BadBlock(s, node[2]) THEN Fault(s)
  ELSE write_local(btree_update_parent_keys(s, node), loc_root)

\* btr.c:463-487
remove_tail(rb, root_block, key, node) ==
  IF rb.s.fault THEN rb.s
  ELSE remove_finish(
         remove_borrowed(
           remove_refill(
             remove_shift(rb.s, key_slot(Get(rb.s, loc_root), key, 0),
                          Get(rb.s, loc_root).num_keys),
             root_block),
           rb.rv),
         node)

\* btr.c:443-487 with the root read
remove_from(s, r0, root_block, key, uninit) ==
  IF s.fault \/ BadBlock(s, r0.w[CH0 + key_slot(r0, key, 0)]) THEN Fault(s)
  ELSE remove_tail(remove_rebalance(s, r0, key, uninit), root_block, key,
                   <<"raw", r0.w[CH0 + key_slot(r0, key, 0)]>>)

btree_remove_key(s, root_block, key, uninit) ==
  IF BadBlock(s, root_block) THEN Fault(s)
  ELSE remove_from(btree_node_read(s, root_block, loc_root[2]),
                   NodeAt(s, root_block), root_block, key, uninit)

\* btr.c:499-501
delete_found(s, node, key, uninit) ==
  btree_node_free(btree_remove_key(s, node.w[PARENT], key, uninit), node)

\* btree_delete returns what btree_search returned.
delete_rv_zero(s, rv, key, uninit) ==
  IF rv = FAULTV THEN [s |-> Fault(s), rv |-> rv]
  ELSE IF rv = NOTFOUND THEN [s |-> s, rv |-> 0]
  ELSE [s |-> delete_found(s, NodeAt(s, rv), key, uninit), rv |-> rv]

delete_rv(s, rv, key, uninit) ==
  IF rv = FAULTV THEN [s |-> Fault(s), rv |-> rv]
  ELSE IF rv = NOTFOUND THEN [s |-> s, rv |-> rv]
  ELSE [s |-> delete_found(s, NodeAt(s, rv), key, uninit), rv |-> rv]

btree_delete(s, root_block, key, uninit) ==
  delete_rv(s, btree_search(s, root_block, key, MaxDepth + 2), key, uninit)

\* cache_sync writes every page on the global dirty list to the device
\* (cache.c:136-162).  Only alloc_page and free_page put a page there
\* (disk.c:128-133, 155-160): the bitmap page; no B-tree routine calls
\* write_block or sets a dirty_bit.
cache_sync_tree(s) ==
  IF s.dirty0 THEN [s EXCEPT !.du = s.used, !.dirty0 = FALSE] ELSE s

\* ------------------------------------------------------------ buffer pool

\* The pool of cache.c with its index (pci.c), free list (fl.c), LRU list
\* (lru.c), global dirty list (gdl.c) and per-inode dirty list (dl.c).  The
\* nodes of the LRU list and of the global dirty list are heap cells: a cell is
\* named by a number of NodeIds, NULLP is the null pointer, free() of a cell
\* clears its live flag and leaves every pointer to it in place.  Both lists
\* overwrite a cell with random bytes before freeing it (lru.c:53, gdl.c:46), so
\* a read through a pointer to a cell that is not live meets random pointers
\* and the operation faults; malloc hands out the cell freed last (the
\* allocator reuses it, and a dangling pointer to it then sees the new node) or
\* a cell nothing points to.  A node of a pci chain is freed without being
\* overwritten (pci.c:71): read through a stale pointer it shows what it held
\* ("stale") or the operation faults ("fault").  pci_delete reads its local prev
\* without having set it when the node is the head of its chain (pci.c:49,65):
\* prev is null ("null"), or it is not and the store through it lands nowhere
\* the pool looks at ("wild") or faults ("fault").

HASHMAP_SIZE == 32

\* Bounds of the pool exploration: cache_size (cache.c:173-175 gives 16384 at
\* least), the pages asked for, the blocks of the image, the inode numbers.
CacheSize == 2
MaxPage == 1
TotalBlocks == 2
MaxInum == 1
MaxPoolOps == 4
MaxBuf == 0

NULLP == 0
Pages == (0..MaxPage) \cup {HASHMAP_SIZE}
Inums == 0..MaxInum
Slots == 0..(CacheSize - 1)
NodeIds == 1..(2 * CacheSize + 2)

\* The bytes of a page, as the set of the bit positions set in it (bitmap.c:7-22
\* counts bit i of byte i/8 as position i); the image disk_open maps is
\* zeroed.  Bufs are the buffers handed to write_block: a page with a bit set
\* in its first byte, and pages with a zero first byte and a bit set behind it.
ZeroPage == {}
Bufs == {{0}} \cup {{8 + b} : b \in 0..MaxBuf}

\* The type tag of a page is its first byte (btr.c:20-22, cache.c:26);
\* BLOCK_TYPE_DATA is the first enumerator of block_type_t.
BLOCK_TYPE_DATA == 0
page_tag(data) == BitSum({x \in data : x < 8}, 0)

PrevGarbage == {"null", "wild", "fault"}
FreedRead == {"stale", "fault"}

PFault(c) == [c EXCEPT !.fault = TRUE]

Live(heap, n) == n \in NodeIds /\ heap[n].live

NodeRefs(heap) ==
  UNION {{heap[n].next, heap[n].prev} : n \in {m \in NodeIds : heap[m].live}}

LeastOf(S, T) ==
  IF S # {} THEN CHOOSE x \in S : \A y \in S : x <= y
  ELSE IF T # {} THEN CHOOSE x \in T : \A y \in T : x <= y
  ELSE NULLP

malloc(heap, freed, refs, reuse) ==
  IF reuse /\ freed # NULLP /\ ~heap[freed].live THEN freed
  ELSE LeastOf({n \in NodeIds : ~heap[n].live /\ n \notin refs},
               {n \in NodeIds : ~heap[n].live})

malloc_lru(c, reuse) ==
  malloc(c.lnode, c.lfreed,
         NodeRefs(c.lnode) \cup {c.lru} \cup {c.cache[i].lru_pos : i \in Slots}, reuse)

malloc_gdl(c, reuse) ==
  malloc(c.gnode, c.gfreed,
         NodeRefs(c.gnode) \cup {c.gdl} \cup {c.cache[i].gdl_pos : i \in Slots}, reuse)

\* lru_push (lru.c:8-32); node is the cell malloc returned.  The caller stores
\* the returned node.
lru_link(c, node) ==
  IF Live(c.lnode, c.lnode[node].prev)
  THEN [c EXCEPT !.lnode[c.lnode[node].prev].next = node, !.lru_size = @ + 1]
  ELSE PFault(c)

lru_push_list(c, node, list) ==
  IF ~Live(c.lnode, list) THEN PFault(c)
  ELSE lru_link([[c EXCEPT !.lnode[node].next = list,
                           !.lnode[node].prev = c.lnode[list].prev]
                    EXCEPT !.lnode[list].prev = node], node)

lru_push(c, index, node) ==
  IF c.fault THEN c
  ELSE IF node = NULLP THEN PFault(c)
  ELSE IF c.lru_size > 0
    THEN lru_push_list([c EXCEPT !.lnode[node].index = index,
                                 !.lnode[node].live = TRUE], node, c.lru)
    ELSE [c EXCEPT !.lnode[node] =
                     [index |-> index, next |-> node, prev |-> node, live |-> TRUE],
                   !.lru_size = @ + 1]

\* lru_pop (lru.c:37-66): the index it returns, and the list it leaves.  The
\* node before list is freed; the next pointer of the node before that one is
\* left pointing to it (lru.c:46-50).
lru_pop_index(c, list) ==
  IF ~Live(c.lnode, list) THEN FAULTV
  ELSE IF c.lnode[list].prev = NULLP THEN c.lnode[list].index
  ELSE IF Live(c.lnode, c.lnode[list].prev) THEN c.lnode[c.lnode[list].prev].index
  ELSE FAULTV

lru_free(c, temp) ==
  [c EXCEPT !.lnode[temp].live = FALSE, !.lfreed = temp, !.lru_size = @ - 1]

lru_pop(c, list) ==
  IF c.fault THEN c
  ELSE IF lru_pop_index(c, list) = FAULTV THEN PFault(c)
  ELSE IF c.lru_size <= 0 THEN lru_free(c, list)
  ELSE IF c.lnode[list].prev = NULLP THEN PFault(c)
  ELSE IF c.lnode[list].next # list
    THEN lru_free([c EXCEPT !.lnode[list].prev = c.lnode[c.lnode[list].prev].prev],
                  c.lnode[list].prev)
    ELSE lru_free(c, c.lnode[list].prev)

\* gdl_push (gdl.c:8-32): the first node gets null links (gdl.c:26-27), so the
\* push onto a list of one node stores through a null prev (gdl.c:21).
gdl_link(c, node) ==
  IF Live(c.gnode, c.gnode[node].prev)
  THEN [c EXCEPT !.gnode[c.gnode[node].prev].next = node, !.gdl_size = @ + 1]
  ELSE PFault(c)

gdl_push_list(c, node, list) ==
  IF ~Live(c.gnode, list) THEN PFault(c)
  ELSE gdl_link([[c EXCEPT !.gnode[node].next = list,
                           !.gnode[node].prev = c.gnode[list].prev]
                    EXCEPT !.gnode[list].prev = node], node)

gdl_push(c, index, node) ==
  IF c.fault THEN c
  ELSE IF node = NULLP THEN PFault(c)
  ELSE IF c.gdl_size > 0
    THEN gdl_push_list([c EXCEPT !.gnode[node].index = index,
                                 !.gnode[node].live = TRUE], node, c.gdl)
    ELSE [c EXCEPT !.gnode[node] =
                     [index |-> index, next |-> NULLP, prev |-> NULLP, live |-> TRUE],
                   !.gdl_size = @ + 1]

\* gdl_pop (gdl.c:36-50).
gdl_unlinked(heap, list) ==
  [n \in NodeIds |->
     IF n = list THEN [heap[n] EXCEPT !.live = FALSE]
     ELSE [heap[n] EXCEPT !.next = IF n = heap[list].prev THEN heap[list].next ELSE @,
                          !.prev = IF n = heap[list].next THEN heap[list].prev ELSE @]]

gdl_pop(c, list) ==
  IF c.fault THEN c
  ELSE IF ~Live(c.gnode, list) THEN PFault(c)
  ELSE IF c.gnode[list].prev # NULLP /\ ~Live(c.gnode, c.gnode[list].prev) THEN PFault(c)
  ELSE IF c.gnode[list].next # NULLP /\ ~Live(c.gnode, c.gnode[list].next) THEN PFault(c)
  ELSE [c EXCEPT !.gnode = gdl_unlinked(@, list), !.gfreed = list, !.gdl_size = @ - 1]

\* disk_write_block (disk.c:186-197) of the page of entry index over the block
\* the entry names; wrote collects the blocks the running call has written.
disk_write_block(c, index) ==
  IF c.fault THEN c
  ELSE IF index \notin Slots THEN PFault(c)
  ELSE IF c.cache[index].block_number \notin Pages THEN PFault(c)
  ELSE [c EXCEPT !.disk[c.cache[index].block_number] = c.cache[index].data,
                 !.wrote = @ \cup {c.cache[index].block_number}]

\* fl_push (fl.c:6-16); fl_pop (fl.c:20-30) is the Tail taken in init_entry.
fl_push(c, index) ==
  IF c.fault THEN c ELSE [c EXCEPT !.free_list = <<index>> \o @]

\* The walk of a pci chain (pci.c:17-24, 52-61): the position of the first node
\* from k on that holds block number b, 0 when the walk runs off the chain.
RECURSIVE pci_find(_, _, _, _)
pci_find(chain, k, b, u) ==
  IF k > Len(chain) THEN 0
  ELSE IF ~chain[k].live /\ u = "fault" THEN FAULTV
  ELSE IF chain[k].block_number = b THEN k
  ELSE pci_find(chain, k + 1, b, u)

pci_at(chain, k) ==
  IF k = FAULTV THEN FAULTV ELSE IF k = 0 THEN NOTFOUND ELSE chain[k].index

pci_lookup(c, b, u) ==
  pci_at(c.pci[b % HASHMAP_SIZE], pci_find(c.pci[b % HASHMAP_SIZE], 1, b, u))

pci_insert(c, b, index) ==
  IF c.fault THEN c
  ELSE [c EXCEPT !.pci[b % HASHMAP_SIZE] =
                   <<[block_number |-> b, index |-> index, live |-> TRUE]>> \o @]

\* pci_delete (pci.c:46-72) once the walk has stopped at position k of the
\* chain of bucket h: past the end curr is null and curr->next faults; behind
\* the head prev is the node before; at the head prev was never set.
pci_unlink(c, h, chain, k, pv) ==
  IF k = FAULTV \/ k = 0 THEN PFault(c)
  ELSE IF ~chain[k].live THEN PFault(c)
  ELSE IF k > 1
    THEN [c EXCEPT !.pci[h] = SubSeq(chain, 1, k - 1) \o SubSeq(chain, k + 1, Len(chain))]
  ELSE IF pv = "null" THEN [c EXCEPT !.pci[h] = Tail(chain)]
  ELSE IF pv = "wild" THEN [c EXCEPT !.pci[h][1].live = FALSE]
  ELSE PFault(c)

pci_delete(c, b, pv, u) ==
  IF c.fault THEN c
  ELSE pci_unlink(c, b % HASHMAP_SIZE, c.pci[b % HASHMAP_SIZE],
                  pci_find(c.pci[b % HASHMAP_SIZE], 1, b, u), pv)

\* block_type == BLOCK_TYPE_DATA (cache.c:26,31,88,97,144,160) compares the
\* pointer to the page with the enumerator 0 (config.h:23).
is_data(c, index) == c.cache[index].page_data = NULLP

\* dl_insert (dl.c:71-94) and dl_remove_block (dl.c:130-170) on the list of the
\* inode; an inode without dirty blocks has no node, here the empty list.
dl_insert(c, inum, pnum) ==
  IF \E k \in 1..Len(c.dirty_list[inum]) : c.dirty_list[inum][k] = pnum THEN c
  ELSE [c EXCEPT !.dirty_list[inum] = <<pnum>> \o @]

dl_remove_block(c, inum, pnum) ==
  [c EXCEPT !.dirty_list[inum] = SelectSeq(@, LAMBDA x : x # pnum)]

\* get_block, the eviction (cache.c:19-39) of entry ci that lru_pop returned.
evict_data(c, ci) ==
  IF is_data(c, ci)
  THEN dl_remove_block(c, c.cache[ci].inode_number, c.cache[ci].block_number)
  ELSE c

evict_entry(c, ci, pv, u) ==
  IF c.fault THEN c
  ELSE fl_push(pci_delete(IF c.cache[ci].dirty_bit
                            THEN gdl_pop(evict_data(disk_write_block(c, ci), ci),
                                         c.cache[ci].gdl_pos)
                            ELSE c,
                          c.cache[ci].block_number, pv, u), ci)

evict(c, pv, u) ==
  IF lru_pop_index(c, c.lru) = FAULTV THEN PFault(c)
  ELSE evict_entry(lru_pop(c, c.lru), lru_pop_index(c, c.lru), pv, u)

\* get_block, the load into the slot at the head of the free list
\* (cache.c:42-62).
init_entry(c, index, inum, pnum) ==
  [c EXCEPT !.free_list = Tail(@),
            !.cache[index] = [@ EXCEPT !.dirty_bit = FALSE, !.block_number = pnum,
                                       !.inode_number = inum, !.page_data = NULLP + 1,
                                       !.data = c.disk[pnum]]]

lru_head(c, index, node) ==
  IF c.fault THEN c ELSE [c EXCEPT !.cache[index].lru_pos = node, !.lru = node]

load(c, index, inum, pnum, node) ==
  pci_insert(lru_head(lru_push(init_entry(c, index, inum, pnum), index, node),
                      index, node), pnum, index)

get_block_miss(c, inum, pnum, reuse) ==
  IF c.fault THEN c
  ELSE load(c, Head(c.free_list), inum, pnum, malloc_lru(c, reuse))

\* get_block, the hit (cache.c:65-71): the node of the entry is popped through
\* its successor and pushed again; cache->lru is left as it was.
hit_pop(c, rv) ==
  IF ~Live(c.lnode, c.cache[rv].lru_pos) THEN PFault(c)
  ELSE IF c.lru_size > 1 THEN lru_pop(c, c.lnode[c.cache[rv].lru_pos].next)
  ELSE lru_pop(c, c.cache[rv].lru_pos)

hit_pos(c, rv, node) ==
  IF c.fault THEN c ELSE [c EXCEPT !.cache[rv].lru_pos = node]

hit_push(c, rv, reuse) ==
  hit_pos(lru_push(c, rv, malloc_lru(c, reuse)), rv, malloc_lru(c, reuse))

get_block(c, inum, pnum, reuse, pv, u) ==
  IF c.fault THEN c
  ELSE IF pci_lookup(c, pnum, u) = FAULTV THEN PFault(c)
  ELSE IF pci_lookup(c, pnum, u) # NOTFOUND
    THEN hit_push(hit_pop(c, pci_lookup(c, pnum, u)), pci_lookup(c, pnum, u), reuse)
  ELSE get_block_miss(IF c.free_list = <<>> THEN evict(c, pv, u) ELSE c,
                      inum, pnum, reuse)

\* dirty_bit = true; gdl = gdl_push(index); gdl_pos = gdl (cache.c:94-101,
\* disk.c:128-133, 155-160).
gdl_head(c, index, node) ==
  IF c.fault THEN c ELSE [c EXCEPT !.gdl = node, !.cache[index].gdl_pos = node]

dirty_entry(c, index, reuse) ==
  IF c.fault THEN c
  ELSE IF index \notin Slots THEN PFault(c)
  ELSE gdl_head(gdl_push([c EXCEPT !.cache[index].dirty_bit = TRUE], index,
                         malloc_gdl(c, reuse)), index, malloc_gdl(c, reuse))

\* write_block (cache.c:75-102).
memcpy_page(c, index, buf) == [c EXCEPT !.cache[index].data = buf]

write_entry(c, buf, index, inum, pnum, reuse) ==
  IF c.fault THEN c
  ELSE IF index \notin Slots THEN PFault(c)
  ELSE dirty_entry(IF is_data(c, index)
                     THEN dl_insert(memcpy_page(c, index, buf), inum, pnum)
                     ELSE memcpy_page(c, index, buf),
                   index, reuse)

write_cached(c, buf, inum, pnum, reuse, u) ==
  write_entry(c, buf, pci_lookup(c, pnum, u), inum, pnum, reuse)

write_block(c, buf, inum, pnum, reuse, pv, u) ==
  IF pci_lookup(c, pnum, u) = NOTFOUND
  THEN write_cached(get_block(c, inum, pnum, reuse, pv, u), buf, inum, pnum, reuse, u)
  ELSE write_cached(c, buf, inum, pnum, reuse, u)

\* cache_sync that leaves dirty_bit and gdl_pos of the entry as they were.
sync_clean_keep(c, index) ==
  IF c.fault THEN c
  ELSE IF is_data(c, index)
    THEN dl_remove_block(c, c.cache[index].inode_number, c.cache[index].block_number)
  ELSE c

\* cache_sync (cache.c:136-162): curr walks the list while every round reads
\* and pops cache->gdl, which nothing moves on.
sync_clean(c, index) ==
  IF c.fault THEN c
  ELSE IF is_data(c, index)
    THEN dl_remove_block([c EXCEPT !.cache[index].dirty_bit = FALSE,
                                   !.cache[index].gdl_pos = NULLP],
                         c.cache[index].inode_number, c.cache[index].block_number)
  ELSE [c EXCEPT !.cache[index].dirty_bit = FALSE, !.cache[index].gdl_pos = NULLP]

RECURSIVE sync_loop(_, _, _)
sync_loop(c, curr, fuel) ==
  IF c.fault \/ curr = NULLP THEN c
  ELSE IF fuel = 0 \/ ~Live(c.gnode, c.gdl) \/ ~Live(c.gnode, curr) THEN PFault(c)
  ELSE sync_loop(sync_clean(gdl_pop(disk_write_block(c, c.gnode[c.gdl].index), c.gdl),
                            c.gnode[c.gdl].index),
                 c.gnode[curr].next, fuel - 1)

cache_sync(c) == sync_loop(c, c.gdl, Cardinality(NodeIds) + 1)

\* cache_fsync (cache.c:104-134); dl_delete (dl.c:98-126) reads its prev as
\* pci_delete does, and the node it leaves behind was overwritten.
RECURSIVE fsync_loop(_, _, _)
fsync_loop(c, list, u) ==
  IF c.fault \/ list = <<>> THEN c
  ELSE IF pci_lookup(c, Head(list), u) \notin Slots THEN PFault(c)
  ELSE fsync_loop(
         gdl_pop([disk_write_block(c, pci_lookup(c, Head(list), u))
                    EXCEPT !.cache[pci_lookup(c, Head(list), u)].dirty_bit = FALSE],
                 c.cache[pci_lookup(c, Head(list), u)].gdl_pos),
         Tail(list), u)

dl_delete(c, inum, pv) ==
  IF c.fault THEN c
  ELSE IF pv = "null" THEN [c EXCEPT !.dirty_list[inum] = <<>>]
  ELSE PFault(c)

cache_fsync_all(c, inum, pv, u) == cache_sync(c)

cache_fsync(c, inum, pv, u) ==
  IF c.dirty_list[inum] = <<>> THEN c
  ELSE dl_delete(fsync_loop(c, c.dirty_list[inum], u), inum, pv)

\* alloc_page and free_page with the cache in use (disk.c:114-141, 147-163):
\* the bitmap page is block 0, reached through get_block.
\* pbm is the page get_block(0) handed out, the page of the entry the index
\* maps block 0 to.
free_bits(c, index) == (0..(TotalBlocks - 1)) \ c.cache[index].data

alloc_bit_at(c, index, reuse) ==
  IF index \notin Slots THEN PFault(c)
  ELSE IF free_bits(c, index) = {} THEN c
  ELSE dirty_entry(
         [c EXCEPT !.cache[index].data = @ \cup {LeastOf(free_bits(c, index), {})}],
         index, reuse)

alloc_bit(c, reuse, u) ==
  IF c.fault THEN c ELSE alloc_bit_at(c, pci_lookup(c, 0, u), reuse)

pool_alloc_page(c, reuse, pv, u) ==
  alloc_bit(get_block(c, 0, 0, reuse, pv, u), reuse, u)

free_bit_at(c, index, pnum) ==
  IF c.fault THEN c ELSE [c EXCEPT !.cache[index].data = @ \ {pnum}]

free_bit(c, pnum, reuse, u) ==
  IF c.fault THEN c
  ELSE free_bit_at(dirty_entry(c, pci_lookup(c, 0, u), reuse), pci_lookup(c, 0, u), pnum)

pool_free_page(c, pnum, reuse, pv, u) ==
  free_bit(get_block(c, 0, 0, reuse, pv, u), pnum, reuse, u)

\* The block number alloc_page returns (disk.c:124-136, 140), on the pool as
\* get_block(0) left it.
alloc_rv(c, u) ==
  IF c.fault \/ pci_lookup(c, 0, u) \notin Slots THEN FAULTV
  ELSE IF free_bits(c, pci_lookup(c, 0, u)) = {} THEN NOTFOUND
  ELSE LeastOf(free_bits(c, pci_lookup(c, 0, u)), {})

\* A node as the B-tree routines hand it to the pool: block_number and, as
\* body, the bits set in the bytes behind it (bit 0 of the body is is_leaf).
\* The node lies one byte into the page (btr.c:22,56,73), block_number in the
\* eight bytes from byte 1 (btr.h:19), the body from byte 9.
RECURSIVE BitsFrom(_, _)
BitsFrom(v, i) ==
  IF v = 0 THEN {}
  ELSE (IF v % 2 = 1 THEN {i} ELSE {}) \cup BitsFrom(v \div 2, i + 1)

NodeVals == [block_number : Pages, body : SUBSET (0..MaxBuf)]

node_bytes(n) == BitsFrom(n.block_number, 8) \cup {8 + 64 + x : x \in n.body}

\* The bytes of a page from byte 1 on, where the node lies.
node_part(data) == {x \in data : x >= 8}

\* memcpy(mem_node, node, sizeof(struct BTreeNode)) (btr.c:76) and the stores
\* of btree_node_create (btr.c:25-36) into the page of entry index.
node_store(c, index, n) ==
  IF c.fault THEN c
  ELSE IF index \notin Slots THEN PFault(c)
  ELSE [c EXCEPT !.cache[index].data = {x \in @ : x < 8} \cup node_bytes(n)]

node_store_at(c, n, u) ==
  IF c.fault THEN c ELSE node_store(c, pci_lookup(c, n.block_number, u), n)

\* btree_node_write (btr.c:70-81) on the pool.
pool_node_write(c, n, reuse, pv, u) ==
  node_store_at(get_block(c, 0, n.block_number, reuse, pv, u), n, u)

\* btree_node_read (btr.c:53-64) on the pool: the pool it leaves is that of
\* get_block(block_num); node_read is what it copies into the caller's struct.
node_read(c, block_num, u) ==
  IF c.fault \/ pci_lookup(c, block_num, u) \notin Slots THEN ZeroPage
  ELSE node_part(c.cache[pci_lookup(c, block_num, u)].data)

\* btree_node_create (btr.c:13-39) on the pool; page is what alloc_page
\* returned.  With page = -1 get_block reads the block before the image
\* (disk.c:57-61).
node_create_in(c, page, is_leaf, reuse, pv, u) ==
  IF c.fault THEN c
  ELSE IF page \notin Pages THEN PFault(c)
  ELSE node_store_at(get_block(c, 0, page, reuse, pv, u),
                     [block_number |-> page, body |-> IF is_leaf THEN {0} ELSE {}], u)

pool_node_create(c, is_leaf, reuse, pv, u) ==
  node_create_in(pool_alloc_page(c, reuse, pv, u),
                 alloc_rv(get_block(c, 0, 0, reuse, pv, u), u), is_leaf, reuse, pv, u)

\* alloc_cache (cache.c:164-225); the entries' array is fresh memory.
alloc_cache ==
  [cache |-> [i \in Slots |->
                [dirty_bit |-> FALSE, block_number |-> 0, inode_number |-> 0,
                 page_data |-> NULLP, lru_pos |-> NULLP, gdl_pos |-> NULLP,
                 data |-> ZeroPage]],
   lru_size |-> 0, gdl_size |-> 0,
   pci |-> [h \in 0..(HASHMAP_SIZE - 1) |-> <<>>],
   dirty_list |-> [i \in Inums |-> <<>>],
   free_list |-> [k \in 1..CacheSize |-> CacheSize - k],
   lru |-> NULLP, gdl |-> NULLP,
   lnode |-> [n \in NodeIds |-> [index |-> 0, next |-> NULLP, prev |-> NULLP, live |-> FALSE]],
   gnode |-> [n \in NodeIds |-> [index |-> 0, next |-> NULLP, prev |-> NULLP, live |-> FALSE]],
   lfreed |-> NULLP, gfreed |-> NULLP,
   fault |-> FALSE, nops |-> 0]

\* disk_open (disk.c:17-40) maps the image, here a zeroed one.
disk_open == [disk |-> [b \in Pages |-> ZeroPage]]

\* What the caller of the pool has seen so far: the call made last, the blocks
\* in the order of their latest get_block (latest first), a page pointer that a
\* get_block returned and the caller goes on using, the blocks the running
\* call has written to the device, and for each block the bytes of the node
\* btree_node_write stored in it last (NoNode when nothing was stored or the
\* block was written otherwise since).
NoRef == [slot |-> NOTFOUND, block |-> NOTFOUND]

NoPoolCall ==
  [op |-> "none", inum |-> 0, pnum |-> 0, buf |-> ZeroPage, touch |-> NOTFOUND,
   victim |-> NOTFOUND]

NoNode == {NOTFOUND}

PoolHistory ==
  [last |-> NoPoolCall, acc |-> <<>>, held |-> NoRef, wrote |-> {},
   node |-> [b \in Pages |-> NoNode]]

PoolInit == (alloc_cache @@ disk_open) @@ PoolHistory

\* ----------------------------------------------------------- the program

\* main (main.c:9-14): alloc_page reserves block 0, then the root node is
\* created with is_leaf = false in block 1.
InitOn(t) ==
  btree_node_create(
    alloc_page(MkState([b \in 1..MaxBlk |-> ZeroNode], {}, FALSE, {}, t)).s, FALSE)

InitState == InitOn(MaxBlk + 1)

\* root->block_number, read through main's pointer to the root's node.
RootBlock == pg[1].block_number

Cur == MkState(pg, used, dirty0, du, total_blocks)

NoCall == [op |-> "none", key |-> 0, value |-> 0, rv |-> 0]

\* The program started on a fresh image of t blocks.
StartOn(t) ==
  /\ pg = InitOn(t).s.pg
  /\ used = InitOn(t).s.used
  /\ dirty0 = InitOn(t).s.dirty0
  /\ du = InitOn(t).s.du
  /\ fault = FALSE
  /\ ins = [k \in Keys |-> <<>>]
  /\ dels = {}
  /\ mixed = FALSE
  /\ last = NoCall
  /\ nops = 0
  /\ total_blocks = t
  /\ pool = PoolInit

Init == StartOn(MaxBlk + 1)

\* The call returns and leaves s behind; a call that left the modelled memory
\* stops the run where it was.
Commit(s) ==
  /\ IF s.fault THEN fault' = TRUE /\ UNCHANGED <<pg, used, dirty0, du>>
     ELSE /\ pg' = s.pg
          /\ used' = s.used
          /\ dirty0' = s.dirty0
          /\ du' = s.du
          /\ fault' = FALSE
  /\ UNCHANGED <<total_blocks, pool>>

CommitRv(r, op, k) ==
  /\ Commit(r.s)
  /\ last' = [op |-> op, key |-> k, value |-> 0, rv |-> r.rv]

\* What an uninitialised int can hold when btree_remove_key reads it: -1, a
\* number outside the image (FAULTV), or a block number, here 0..MaxGarbage.
Uninit == {NOTFOUND, FAULTV} \cup (0..MaxGarbage)

Insert(k, v) ==
  /\ ~fault /\ nops < MaxOps
  /\ Commit(btree_insert(Cur, RootBlock, k, v))
  /\ last' = [op |-> "insert", key |-> k, value |-> v, rv |-> 0]
  /\ ins' = [ins EXCEPT ![k] = Append(@, v)]
  /\ mixed' = (mixed \/ dels # {})
  /\ nops' = nops + 1
  /\ UNCHANGED dels

Delete(k, u) ==
  /\ ~fault /\ nops < MaxOps
  /\ CommitRv(btree_delete(Cur, RootBlock, k, u), "delete", k)
  /\ dels' = dels \cup {k}
  /\ nops' = nops + 1
  /\ UNCHANGED <<ins, mixed>>

Search(k) ==
  /\ ~fault /\ nops < MaxOps
  /\ CommitRv([s |-> Chk(Cur, btree_search(Cur, RootBlock, k, MaxDepth + 2)),
               rv |-> btree_search(Cur, RootBlock, k, MaxDepth + 2)], "search", k)
  /\ nops' = nops + 1
  /\ UNCHANGED <<ins, dels, mixed>>

Sync ==
  /\ ~fault /\ nops < MaxOps
  /\ Commit(cache_sync_tree(Cur))
  /\ last' = [op |-> "sync", key |-> 0, value |-> 0, rv |-> 0]
  /\ nops' = nops + 1
  /\ UNCHANGED <<ins, dels, mixed>>

Next ==
  \/ \E k \in Keys, v \in Vals : Insert(k, v)
  \/ \E k \in Keys : \E u \in Uninit : Delete(k, u)
  \/ \E k \in 0..MaxKey : Search(k)
  \/ Sync

Spec == Init /\ [][Next]_vars

\* The same calls on a fresh image of SmallImage blocks: block 0, the root and
\* room for SmallImage - 2 more nodes.
SmallImage == 4

SpecSmall == StartOn(SmallImage) /\ [][Next]_vars

\* Longer runs of btree_insert and btree_delete calls, every insert with the
\* same value.
MaxRun == 7

RunInsert(k) ==
  /\ ~fault /\ nops < MaxRun
  /\ Commit(btree_insert(Cur, RootBlock, k, 100 + MaxVal))
  /\ last' = [op |-> "insert", key |-> k, value |-> 100 + MaxVal, rv |-> 0]
  /\ ins' = [ins EXCEPT ![k] = Append(@, 100 + MaxVal)]
  /\ mixed' = (mixed \/ dels # {})
  /\ nops' = nops + 1
  /\ UNCHANGED dels

RunDelete(k, u) ==
  /\ ~fault /\ nops < MaxRun
  /\ CommitRv(btree_delete(Cur, RootBlock, k, u), "delete", k)
  /\ dels' = dels \cup {k}
  /\ nops' = nops + 1
  /\ UNCHANGED <<ins, mixed>>

NextRun ==
  \/ \E k \in Keys : RunInsert(k)
  \/ \E k \in Keys : \E u \in Uninit : RunDelete(k, u)

SpecRun == Init /\ [][NextRun]_vars

\* The program's calls with keys that are the numbers of blocks no call of the
\* run allocates (a run of MaxOps calls takes blocks below MaxBlk - 1).
FarKeys == {MaxBlk - 1, MaxBlk}

FarInsert(k) ==
  /\ ~fault /\ nops < MaxOps
  /\ Commit(btree_insert(Cur, RootBlock, k, 100 + MaxVal))
  /\ last' = [op |-> "insert", key |-> k, value |-> 100 + MaxVal, rv |-> 0]
  /\ nops' = nops + 1
  /\ UNCHANGED <<ins, dels, mixed>>

FarDelete(k, u) ==
  /\ ~fault /\ nops < MaxOps
  /\ CommitRv(btree_delete(Cur, RootBlock, k, u), "delete", k)
  /\ nops' = nops + 1
  /\ UNCHANGED <<ins, dels, mixed>>

FarNext ==
  \/ \E k \in FarKeys : FarInsert(k)
  \/ \E k \in FarKeys : \E u \in Uninit : FarDelete(k, u)

SpecFar == Init /\ [][FarNext]_vars

\* btree_find_height: the levels below node_block along the leftmost path.
RECURSIVE height_walk(_, _, _)
height_walk(s, node, fuel) ==
  IF node.is_leaf THEN 0
  ELSE IF fuel = 0 \/ BadBlock(s, node.w[CH0]) THEN FAULTV
  ELSE LET h == height_walk(s, NodeAt(s, node.w[CH0]), fuel - 1)
       IN IF h < 0 THEN h ELSE h + 1

btree_find_height(s, node_block) ==
  IF BadBlock(s, node_block) THEN FAULTV
  ELSE LET node == NodeAt(s, node_block)
       IN IF node.w[PARENT] = 0 /\ node.w[CH0] = 0 THEN 0
          ELSE height_walk(s, node, MaxDepth + 2)

\* btree_find_minimum: the key of the leaf at the end of the leftmost path.
RECURSIVE btree_find_minimum(_, _, _)
btree_find_minimum(s, root_block, fuel) ==
  IF fuel = 0 \/ BadBlock(s, root_block) THEN FAULTV
  ELSE LET root == NodeAt(s, root_block)
       IN IF BadBlock(s, root.w[CH0]) THEN FAULTV
          ELSE LET first_child == NodeAt(s, root.w[CH0])
               IN IF first_child.is_leaf THEN first_child.key
                  ELSE btree_find_minimum(s, first_child.block_number, fuel - 1)

\* The run that inserts the keys 1, 2, ... in ascending order on the fresh
\* tree, with a btree_search between any two of the inserts.
MaxAsc == 8
AscKeys == 1..MaxAsc

AscInsert(v) ==
  /\ ~fault /\ nops < MaxAsc
  /\ Commit(btree_insert(Cur, RootBlock, nops + 1, v))
  /\ last' = [op |-> "insert", key |-> nops + 1, value |-> v, rv |-> 0]
  /\ nops' = nops + 1
  /\ UNCHANGED <<ins, dels, mixed>>

AscSearch(k) ==
  /\ ~fault
  /\ CommitRv([s |-> Chk(Cur, btree_search(Cur, RootBlock, k, MaxDepth + 2)),
               rv |-> btree_search(Cur, RootBlock, k, MaxDepth + 2)], "search", k)
  /\ UNCHANGED <<ins, dels, mixed, nops>>

AscNext ==
  \/ \E v \in Vals : AscInsert(v)
  \/ \E k \in AscKeys : AscSearch(k)

SpecAsc == Init /\ [][AscNext]_vars

\* --------------------------------------------- the calls on a laid-out tree

\* A tree of three levels laid out in the image through btree_node_create and
\* btree_node_write (btr.h:45, 69), in the form btree_insert_nonfull gives a
\* node (btr.c:228-242): an internal node of n children has num_keys = n, the
\* children in children[0..n-1] and keys[i] the largest key under children[i];
\* a leaf has num_keys = 0 and its pair in key and value (btr.c:332-334).  The
\* root (block 1) has Len(cs) internal children in blocks 2.., the i-th with
\* cs[i] leaves; the leaves follow in key order and leaf j holds key 2j.
MaxLeaves == 10

RECURSIVE SumTo(_, _)
SumTo(cs, i) == IF i = 0 THEN 0 ELSE cs[i] + SumTo(cs, i - 1)

Shapes ==
  {cs \in UNION {[1..np -> MIN_KEYS..MAX_KEYS] : np \in 2..(MAX_KEYS - 1)} :
     SumTo(cs, Len(cs)) <= MaxLeaves}

BuiltKeys == 1..(2 * MaxLeaves + 1)

\* A node struct with keys ks, children ch and the three links.
MkNode(b, is_leaf, n, key, ks, ch, parent, left, right) ==
  [block_number |-> b, is_leaf |-> is_leaf, num_keys |-> n, key |-> key,
   value |-> IF is_leaf THEN 101 ELSE 0,
   w |-> [i \in Words |->
            IF i < CH0 THEN (IF i + 1 <= Len(ks) THEN ks[i + 1] ELSE 0)
            ELSE IF i < PARENT THEN (IF i - CH0 + 1 <= Len(ch) THEN ch[i - CH0 + 1] ELSE 0)
            ELSE IF i = PARENT THEN parent
            ELSE IF i = LEFT THEN left
            ELSE right]]

InnerBlock(i) == 1 + i
LeafBlock(cs, j) == 1 + Len(cs) + j

\* The inner node that leaf j hangs under.
OwnerOf(cs, j) == CHOOSE i \in 1..Len(cs) : SumTo(cs, i - 1) < j /\ j <= SumTo(cs, i)

BuiltLeaf(cs, j) ==
  MkNode(LeafBlock(cs, j), TRUE, 0, 2 * j, <<>>, <<>>, InnerBlock(OwnerOf(cs, j)), 0, 0)

BuiltInner(cs, i) ==
  MkNode(InnerBlock(i), FALSE, cs[i], 0,
         [m \in 1..cs[i] |-> 2 * (SumTo(cs, i - 1) + m)],
         [m \in 1..cs[i] |-> LeafBlock(cs, SumTo(cs, i - 1) + m)],
         1,
         IF i > 1 THEN InnerBlock(i - 1) ELSE 0,
         IF i < Len(cs) THEN InnerBlock(i + 1) ELSE 0)

BuiltRoot(cs) ==
  MkNode(1, FALSE, Len(cs), 0,
         [i \in 1..Len(cs) |-> 2 * SumTo(cs, i)],
         [i \in 1..Len(cs) |-> InnerBlock(i)], 0, 0, 0)

\* The state after main's start-up, one btree_node_create per node (the
\* blocks come out in order, disk.c:124-136) and one btree_node_write per
\* node: the bitmap page is dirty and nothing is on the device yet.
Built(cs) ==
  MkState(
    [b \in 1..MaxBlk |->
       IF b = 1 THEN BuiltRoot(cs)
       ELSE IF b <= 1 + Len(cs) THEN BuiltInner(cs, b - 1)
       ELSE IF b <= 1 + Len(cs) + SumTo(cs, Len(cs))
       THEN BuiltLeaf(cs, b - 1 - Len(cs))
       ELSE ZeroNode],
    0..(1 + Len(cs) + SumTo(cs, Len(cs))), TRUE, {}, MaxBlk + 1)

BuiltInit ==
  \E cs \in Shapes :
    /\ pg = Built(cs).pg
    /\ used = Built(cs).used
    /\ dirty0 = Built(cs).dirty0
    /\ du = Built(cs).du
    /\ fault = FALSE
    /\ ins = [k \in Keys |-> <<>>]
    /\ dels = {}
    /\ mixed = FALSE
    /\ last = NoCall
    /\ nops = 0
    /\ total_blocks = MaxBlk + 1
    /\ pool = PoolInit

MaxBuiltOps == 1

BuiltInsert(k) ==
  /\ ~fault /\ nops < MaxBuiltOps
  /\ Commit(btree_insert(Cur, RootBlock, k, 101))
  /\ last' = [op |-> "insert", key |-> k, value |-> 101, rv |-> 0]
  /\ nops' = nops + 1
  /\ UNCHANGED <<ins, dels, mixed>>

BuiltDelete(k, u) ==
  /\ ~fault /\ nops < MaxBuiltOps
  /\ CommitRv(btree_delete(Cur, RootBlock, k, u), "delete", k)
  /\ nops' = nops + 1
  /\ UNCHANGED <<ins, dels, mixed>>

BuiltNext ==
  \/ \E k \in BuiltKeys : BuiltInsert(k)
  \/ \E k \in BuiltKeys : \E u \in Uninit : BuiltDelete(k, u)

BuiltSpec == BuiltInit /\ [][BuiltNext]_vars

\* ------------------------------------------------------ the pool's program

\* A caller of the pool's interface (cache.h:24-47, disk.c:114-163) on the pool
\* alloc_cache returns.  The caller may keep the page pointer of a get_block
\* and go on using it, as btree_insert does with the node of btree_node_create
\* (btr.c:332-369).
PoolStart == [pool EXCEPT !.wrote = {}]

\* The blocks that have a page in the pool c.
Cached(c) == {c.cache[i].block_number : i \in {j \in Slots : c.cache[j].page_data # NULLP}}

\* The slot get_block(pnum) evicts on c (cache.c:14-21), NOTFOUND if none.
victim_of(c, pnum, u) ==
  IF pci_lookup(c, pnum, u) = NOTFOUND /\ c.free_list = <<>>
  THEN lru_pop_index(c, c.lru) ELSE NOTFOUND

PoolCall(op, inum, pnum, buf, touch, victim) ==
  [op |-> op, inum |-> inum, pnum |-> pnum, buf |-> buf, touch |-> touch,
   victim |-> victim]

Touched(c, acc, touch) ==
  IF touch = NOTFOUND THEN SelectSeq(acc, LAMBDA x : x \in Cached(c))
  ELSE <<touch>> \o SelectSeq(acc, LAMBDA x : x \in Cached(c) /\ x # touch)

PoolCommit(c, call, ref) ==
  /\ pool' = IF c.fault THEN [pool EXCEPT !.fault = TRUE, !.last = call]
             ELSE [c EXCEPT !.nops = @ + 1, !.last = call,
                            !.acc = Touched(c, @, call.touch), !.held = ref]
  /\ UNCHANGED treevars

PoolReady == ~pool.fault /\ pool.nops < MaxPoolOps

\* The pointer the caller keeps: the page of the slot the index maps pnum to
\* once get_block has returned.
KeptRef(c, pnum, keep) ==
  IF keep /\ pool.held = NoRef /\ ~c.fault
  THEN [slot |-> pci_lookup(c, pnum, "stale"), block |-> pnum]
  ELSE pool.held

GetBlock(inum, pnum, reuse, pv, u, keep) ==
  /\ PoolReady
  /\ PoolCommit(get_block(PoolStart, inum, pnum, reuse, pv, u),
                PoolCall("get_block", inum, pnum, ZeroPage, pnum, victim_of(pool, pnum, u)),
                KeptRef(get_block(PoolStart, inum, pnum, reuse, pv, u), pnum, keep))

WriteBlock(buf, inum, pnum, reuse, pv, u) ==
  /\ PoolReady
  /\ PoolCommit(write_block(PoolStart, buf, inum, pnum, reuse, pv, u),
                PoolCall("write_block", inum, pnum, buf,
                         IF pci_lookup(pool, pnum, u) = NOTFOUND THEN pnum ELSE NOTFOUND,
                         victim_of(pool, pnum, u)),
                pool.held)

CacheSync ==
  /\ PoolReady
  /\ PoolCommit(cache_sync(PoolStart),
                PoolCall("cache_sync", 0, 0, ZeroPage, NOTFOUND, NOTFOUND), pool.held)

CacheFsync(inum, pv, u) ==
  /\ PoolReady
  /\ PoolCommit(cache_fsync(PoolStart, inum, pv, u),
                PoolCall("cache_fsync", inum, 0, ZeroPage, NOTFOUND, NOTFOUND), pool.held)

AllocPage(reuse, pv, u) ==
  /\ PoolReady
  /\ PoolCommit(pool_alloc_page(PoolStart, reuse, pv, u),
                PoolCall("alloc_page", 0, alloc_rv(get_block(PoolStart, 0, 0, reuse, pv, u), u),
                         ZeroPage, 0, victim_of(pool, 0, u)),
                pool.held)

FreePage(pnum, reuse, pv, u) ==
  /\ PoolReady
  /\ PoolCommit(pool_free_page(PoolStart, pnum, reuse, pv, u),
                PoolCall("free_page", 0, pnum, ZeroPage, 0, victim_of(pool, 0, u)), pool.held)

\* What the uninitialised prev can hold matters where it is read: in the
\* pci_delete of an eviction and in the dl_delete of a cache_fsync that found a
\* list; what a freed pci node shows matters once a chain holds one.
PrevReads == IF pool.free_list = <<>> THEN PrevGarbage ELSE {"null"}

PrevReadsOf(inum) == IF pool.dirty_list[inum] # <<>> THEN PrevGarbage ELSE {"null"}

FreedReads ==
  IF \E h \in DOMAIN pool.pci : \E k \in 1..Len(pool.pci[h]) : ~pool.pci[h][k].live
  THEN FreedRead ELSE {"stale"}

KeepChoices == IF pool.held = NoRef THEN BOOLEAN ELSE {FALSE}

PoolNext ==
  \/ \E inum \in Inums, pnum \in Pages, reuse \in BOOLEAN, pv \in PrevReads,
        u \in FreedReads, keep \in KeepChoices :
       GetBlock(inum, pnum, reuse, pv, u, keep)
  \/ \E buf \in Bufs, inum \in Inums, pnum \in Pages, reuse \in BOOLEAN,
        pv \in PrevReads, u \in FreedReads :
       WriteBlock(buf, inum, pnum, reuse, pv, u)
  \/ CacheSync
  \/ \E inum \in Inums : \E pv \in PrevReadsOf(inum), u \in FreedReads :
       CacheFsync(inum, pv, u)
  \/ \E reuse \in BOOLEAN, pv \in PrevReads, u \in FreedReads : AllocPage(reuse, pv, u)
  \/ \E pnum \in 0..(TotalBlocks - 1), reuse \in BOOLEAN, pv \in PrevReads, u \in FreedReads :
       FreePage(pnum, reuse, pv, u)

PoolSpec == Init /\ [][PoolNext]_vars

\* The B-tree's use of the pool: it stores and fetches nodes through
\* btree_node_write, btree_node_read and btree_node_create, always as owner 0
\* (btr.c:19,56,73), fetches other blocks in between, and main offers
\* cache_sync (main.c:41-43).
NodeWritten(c, b, bytes) == IF c.fault THEN c ELSE [c EXCEPT !.node[b] = bytes]

NodeWrite(n, reuse, pv, u) ==
  /\ PoolReady
  /\ PoolCommit(NodeWritten(pool_node_write(PoolStart, n, reuse, pv, u),
                            n.block_number, node_bytes(n)),
                PoolCall("btree_node_write", 0, n.block_number, node_bytes(n),
                         n.block_number, victim_of(pool, n.block_number, u)),
                pool.held)

NodeRead(b, reuse, pv, u) ==
  /\ PoolReady
  /\ PoolCommit(get_block(PoolStart, 0, b, reuse, pv, u),
                PoolCall("btree_node_read", 0, b,
                         node_read(get_block(PoolStart, 0, b, reuse, pv, u), b, u),
                         b, victim_of(pool, b, u)),
                pool.held)

NodeCreated(c, page) ==
  IF c.fault \/ page \notin Pages THEN c
  ELSE [c EXCEPT !.node[0] = NoNode, !.node[page] = NoNode]

NodeCreate(is_leaf, reuse, pv, u) ==
  /\ PoolReady
  /\ PoolCommit(NodeCreated(pool_node_create(PoolStart, is_leaf, reuse, pv, u),
                            alloc_rv(get_block(PoolStart, 0, 0, reuse, pv, u), u)),
                PoolCall("btree_node_create", 0,
                         alloc_rv(get_block(PoolStart, 0, 0, reuse, pv, u), u),
                         ZeroPage, 0, victim_of(pool, 0, u)),
                pool.held)

NodeNext ==
  \/ \E n \in NodeVals, reuse \in BOOLEAN, pv \in PrevReads, u \in FreedReads :
       NodeWrite(n, reuse, pv, u)
  \/ \E b \in Pages, reuse \in BOOLEAN, pv \in PrevReads, u \in FreedReads :
       NodeRead(b, reuse, pv, u)
  \/ \E is_leaf \in BOOLEAN, reuse \in BOOLEAN, pv \in PrevReads, u \in FreedReads :
       NodeCreate(is_leaf, reuse, pv, u)
  \/ \E pnum \in Pages, reuse \in BOOLEAN, pv \in PrevReads, u \in FreedReads :
       GetBlock(0, pnum, reuse, pv, u, FALSE)
  \/ CacheSync

NodeSpec == Init /\ [][NodeNext]_vars

\* ------------------------------------------------------------ properties

\* The tree as btree_search walks it: the nodes reachable from the root through
\* children[0..num_keys] of the nodes that are not leaves.
ChildSlots(n) == {i \in 0..n.num_keys : CH0 + i < NWORDS}
Kids(b) ==
  IF b \notin 1..MaxBlk \/ pg[b].is_leaf THEN {}
  ELSE {pg[b].w[CH0 + i] : i \in ChildSlots(pg[b])} \ {0}

RECURSIVE ReachFrom(_, _)
ReachFrom(S, n) ==
  IF n = 0 THEN S ELSE ReachFrom(S \cup UNION {Kids(b) : b \in S}, n - 1)

Reachable == ReachFrom({RootBlock}, MaxBlk) \cap (1..MaxBlk)

\* The keys btree_insert was called with, and those among them never deleted.
Inserted == {k \in Keys : ins[k] # <<>>}
DistinctInserts == \A k \in Keys : Len(ins[k]) <= 1

\* The last call completed, and it was op.
Completed(op) == ~fault /\ last.op = op

\* C1: after btree_insert calls with pairwise distinct keys and a cache_sync,
\* btree_search returns, for every inserted key, the value inserted with it.
C1_SearchReturnsInsertedValue ==
  (Completed("search") /\ dels = {} /\ DistinctInserts /\ ~dirty0
     /\ last.key \in Inserted)
    => last.rv = ins[last.key][1]

\* C2: after inserts with distinct keys and then deletes of a subset D of the
\* inserted keys, btree_search returns -1 for an inserted key iff it is in D.
C2_NotFoundIffDeleted ==
  (Completed("search") /\ ~mixed /\ DistinctInserts /\ dels \subseteq Inserted
     /\ last.key \in Inserted)
    => (last.rv = NOTFOUND <=> last.key \in dels)

KeyInTree(k) == \E b \in Reachable : pg[b].is_leaf /\ pg[b].key = k

\* The step is a completed call of op.
Call(op) == ~fault' /\ nops' = nops + 1 /\ last'.op = op

\* C4: btree_insert of a key that is already in the tree overwrites the value
\* stored for the key and changes no structure: the nodes, their num_keys and
\* children, and the allocated blocks are as before the call.
C4_DuplicateInsertOverwrites ==
  [][(Call("insert") /\ KeyInTree(last'.key))
       => /\ used' = used
          /\ Reachable' = Reachable
          /\ \A b \in Reachable :
               /\ pg'[b].num_keys = pg[b].num_keys
               /\ \A i \in CH0..(CH0 + MAX_KEYS) : pg'[b].w[i] = pg[b].w[i]
          /\ \A b \in Reachable :
               (pg'[b].is_leaf /\ pg'[b].key = last'.key) => pg'[b].value = last'.value]_vars

AfterUpdate == ~fault /\ last.op \in {"insert", "delete"}

\* C6: after every completed btree_insert or btree_delete every node of the
\* tree but the root has MIN_KEYS <= num_keys <= MAX_KEYS, and the root has
\* num_keys in 0..MAX_KEYS when it is a leaf, in 1..MAX_KEYS when it is not.
C6_Balance ==
  AfterUpdate =>
    /\ \A b \in Reachable \ {RootBlock} : pg[b].num_keys \in MIN_KEYS..MAX_KEYS
    /\ pg[RootBlock].num_keys \in (IF pg[RootBlock].is_leaf THEN 0 ELSE 1)..MAX_KEYS

\* The keys held in the leaves of the subtree of block b.
SubKeys(b) == {pg[x].key : x \in {y \in ReachFrom({b}, MaxBlk) \cap (1..MaxBlk) : pg[y].is_leaf}}
MaxOf(S) == CHOOSE x \in S : \A y \in S : y <= x

\* C7: after every completed btree_insert or btree_delete, for every node P of
\* the tree that is not a leaf and every slot i < P.num_keys, P.keys[i] is the
\* maximum key of the subtree of P.children[i], and every key under
\* P.children[i] is <= every key under P.children[i+1].
C7_Separators ==
  AfterUpdate =>
    \A p \in Reachable : \A i \in 0..(MAX_KEYS - 1) :
      (~pg[p].is_leaf /\ i < pg[p].num_keys /\ SubKeys(pg[p].w[CH0 + i]) # {})
        => /\ pg[p].w[KEYS0 + i] = MaxOf(SubKeys(pg[p].w[CH0 + i]))
           /\ \A x \in SubKeys(pg[p].w[CH0 + i]), y \in SubKeys(pg[p].w[CH0 + i + 1]) : x <= y

\* The depth of a node of the tree, and the node to the right of n at n's
\* depth: the next child of n's parent, or the first child of the parent's
\* right sibling when n is the parent's last.
Level(b) == CHOOSE d \in 0..MaxBlk : b \in ReachFrom({RootBlock}, d)
                                      /\ \A e \in 0..(d - 1) : b \notin ReachFrom({RootBlock}, e)

RightNeighbour(n, r) ==
  \/ \E p \in Reachable : \E i \in 0..(MAX_KEYS - 1) :
       /\ ~pg[p].is_leaf /\ i < pg[p].num_keys
       /\ pg[p].w[CH0 + i] = n /\ pg[p].w[CH0 + i + 1] = r
  \/ \E p \in Reachable, q \in Reachable :
       /\ ~pg[p].is_leaf /\ ~pg[q].is_leaf /\ pg[p].w[RIGHT] = q
       /\ pg[p].num_keys <= MAX_KEYS /\ pg[p].w[CH0 + pg[p].num_keys] = n
       /\ pg[q].w[CH0] = r

\* C8: after every completed btree_insert or btree_delete, every node N of the
\* tree with right_sibling = R # 0 has R.left_sibling = N.block_number, R at
\* the depth of N and R the node immediately to the right of N at that depth
\* (so a split that puts N' to the right of N links N' between N and N's old
\* right sibling).
C8_SiblingLinks ==
  AfterUpdate =>
    \A n \in Reachable :
      pg[n].w[RIGHT] # 0 =>
        /\ pg[n].w[RIGHT] \in Reachable
        /\ pg[pg[n].w[RIGHT]].w[LEFT] = pg[n].block_number
        /\ Level(pg[n].w[RIGHT]) = Level(n)
        /\ RightNeighbour(n, pg[n].w[RIGHT])

\* The nodes whose children[] list block b.
ListedBy(b) == {p \in Reachable : b \in Kids(p)}

\* C9: after every completed btree_insert or btree_delete a node of the tree
\* has parent = 0 iff it is the root, and the parent field of every other node
\* is the block number of the node whose children[] list it.
C9_ParentLinks ==
  AfterUpdate =>
    \A b \in Reachable :
      /\ (pg[b].w[PARENT] = 0) <=> (b = RootBlock)
      /\ b # RootBlock => \A p \in ListedBy(b) : pg[b].w[PARENT] = pg[p].block_number

\* Entry i of the pool holds block b: a page is loaded in it for b.
PoolHolds(i, b) == pool.cache[i].page_data # NULLP /\ pool.cache[i].block_number = b

\* C10: in every state reached through get_block, write_block, cache_sync,
\* cache_fsync, alloc_page and free_page each block number is held by at most
\* one cache entry, and pci_lookup(b) returns i iff entry i holds block b.
C10_PoolIndex ==
  ~pool.fault =>
    \A b \in Pages :
      /\ Cardinality({i \in Slots : PoolHolds(i, b)}) <= 1
      /\ \A u \in FreedRead : \A i \in Slots :
           (pci_lookup(pool, b, u) = i) <=> PoolHolds(i, b)

\* The entries whose index is on the global dirty list: the nodes reached
\* from cache->gdl along next.
RECURSIVE gdl_walk(_, _, _)
gdl_walk(c, n, fuel) ==
  IF n = NULLP \/ fuel = 0 \/ ~Live(c.gnode, n) THEN {}
  ELSE {c.gnode[n].index} \cup gdl_walk(c, c.gnode[n].next, fuel - 1)

OnGdl(c) == gdl_walk(c, c.gdl, Cardinality(NodeIds))

\* Entry i holds a page whose tag says DATA.
DataEntry(c, i) ==
  c.cache[i].page_data # NULLP /\ page_tag(c.cache[i].data) = BLOCK_TYPE_DATA

InOwnerSet(c, i) ==
  /\ c.cache[i].inode_number \in Inums
  /\ \E k \in 1..Len(c.dirty_list[c.cache[i].inode_number]) :
       c.dirty_list[c.cache[i].inode_number][k] = c.cache[i].block_number

\* C11: in every reachable pool state every entry with dirty_bit set is on the
\* global dirty list, and if its page is a DATA page its block is in the dirty
\* set of its owner.
C11_DirtyIsListed ==
  ~pool.fault =>
    \A i \in Slots :
      pool.cache[i].dirty_bit =>
        /\ i \in OnGdl(pool)
        /\ DataEntry(pool, i) => InOwnerSet(pool, i)

\* The slots on the LRU list, from the head cache->lru along next once round
\* the circle.
RECURSIVE lru_walk(_, _, _)
lru_walk(c, n, fuel) ==
  IF n = NULLP \/ fuel = 0 \/ ~Live(c.lnode, n) THEN <<>>
  ELSE <<c.lnode[n].index>> \o
       (IF c.lnode[n].next = c.lru THEN <<>> ELSE lru_walk(c, c.lnode[n].next, fuel - 1))

LruOrder(c) == lru_walk(c, c.lru, Cardinality(NodeIds))

Times(seq, x) == Cardinality({k \in 1..Len(seq) : seq[k] = x})

\* C12: in every reachable pool state every slot is exactly once on the free
\* list or on the LRU list, never on both, and lru_size is the number of slots
\* on the LRU list.
C12_FreeOrLru ==
  ~pool.fault =>
    /\ \A i \in Slots : Times(pool.free_list, i) + Times(LruOrder(pool), i) = 1
    /\ pool.lru_size = Len(LruOrder(pool))

\* The step is a call of op that returned.
Returned(op) ==
  pool'.last.op = op /\ pool'.nops = pool.nops + 1 /\ ~pool'.fault

\* The page of entry i as the call found it is on the device and was written
\* by the call.
WrittenBack(i) ==
  /\ pool.cache[i].block_number \in pool'.wrote
  /\ pool'.disk[pool.cache[i].block_number] = pool.cache[i].data

AllClean(c) ==
  /\ \A i \in Slots : ~c.cache[i].dirty_bit
  /\ c.gdl_size = 0
  /\ OnGdl(c) = {}
  /\ \A inum \in Inums : c.dirty_list[inum] = <<>>

\* C13: when cache_sync returns, every page that was on the global dirty list
\* has been written to the device, no entry has dirty_bit set, the global
\* dirty list is empty with gdl_size = 0 and every per-owner dirty list is empty.
C13_SyncCleans ==
  [][Returned("cache_sync") =>
       /\ \A i \in OnGdl(pool) : WrittenBack(i)
       /\ AllClean(pool')]_vars

\* A cache_sync has returned after writing a page that differed from the device.
C13_Witness ==
  /\ pool.last.op = "cache_sync" /\ ~pool.fault
  /\ \E b \in pool.wrote : pool.disk[b] # ZeroPage

\* C14: a cache_sync that follows a cache_sync with no call between them
\* writes nothing to the device and leaves the pool as it was.
C14_SyncTwice ==
  [][(pool.last.op = "cache_sync" /\ ~pool.fault
        /\ pool'.last.op = "cache_sync" /\ pool' # pool)
       => /\ ~pool'.fault
          /\ pool'.wrote = {}
          /\ pool' = [pool EXCEPT !.nops = @ + 1, !.wrote = {}]]_vars

\* Entry i holds a dirty DATA page of owner inum.
DirtyDataOf(c, i, inum) ==
  c.cache[i].dirty_bit /\ DataEntry(c, i) /\ c.cache[i].inode_number = inum

\* C15: when cache_fsync(owner) returns, every DATA page that was dirty for
\* the owner is on the device with its cached content and is marked clean, and
\* the dirty set of the owner is empty.
C15_FsyncWritesOwner ==
  [][Returned("cache_fsync") =>
       /\ \A i \in Slots :
            DirtyDataOf(pool, i, pool'.last.inum) =>
              WrittenBack(i) /\ ~pool'.cache[i].dirty_bit
       /\ pool'.dirty_list[pool'.last.inum] = <<>>]_vars

\* Entry i holds a page the call cache_fsync(inum) is not about: a page that is
\* not a DATA page, or a page of another owner.
NotFsyncs(c, i, inum) ==
  /\ c.cache[i].page_data # NULLP
  /\ ~DataEntry(c, i) \/ c.cache[i].inode_number # inum

\* C16: cache_fsync(owner) leaves the dirty bit, the cached content, the device
\* content and the membership of the global dirty list as they were for every
\* page that is not a DATA page and for every page of another owner.
C16_FsyncFrame ==
  [][Returned("cache_fsync") =>
       \A i \in Slots :
         NotFsyncs(pool, i, pool'.last.inum) =>
           /\ pool'.cache[i].dirty_bit = pool.cache[i].dirty_bit
           /\ pool'.cache[i].data = pool.cache[i].data
           /\ pool'.cache[i].block_number = pool.cache[i].block_number
           /\ pool'.disk[pool.cache[i].block_number]
                = pool.disk[pool.cache[i].block_number]
           /\ (i \in OnGdl(pool')) <=> (i \in OnGdl(pool))]_vars

\* A cache_fsync has returned with a dirty page in the pool that is not a DATA
\* page and differs from the device.
C16_Witness ==
  /\ pool.last.op = "cache_fsync" /\ ~pool.fault
  /\ \E i \in Slots :
       /\ pool.cache[i].dirty_bit /\ i \in OnGdl(pool)
       /\ pool.cache[i].page_data # NULLP /\ ~DataEntry(pool, i)
       /\ pool.disk[pool.cache[i].block_number] # pool.cache[i].data

\* The entry that holds block pnum in c.
SlotOf(c, pnum) ==
  CHOOSE i \in Slots : c.cache[i].page_data # NULLP /\ c.cache[i].block_number = pnum

\* The step is a get_block that returned and found its block in the pool.
ReturnedHit ==
  /\ Returned("get_block")
  /\ pool'.last.pnum \in Cached(pool)
  /\ pci_lookup(pool, pool'.last.pnum, "stale") = SlotOf(pool, pool'.last.pnum)

\* C17: a get_block that hits moves the entry of its block to the head of the
\* LRU list, keeps the order of the other entries, and leaves the set of
\* cached blocks and lru_size as they were.
C17_HitMovesToHead ==
  [][ReturnedHit =>
       /\ LruOrder(pool') =
            <<SlotOf(pool, pool'.last.pnum)>> \o
            SelectSeq(LruOrder(pool), LAMBDA x : x # SlotOf(pool, pool'.last.pnum))
       /\ Cached(pool') = Cached(pool)
       /\ pool'.lru_size = pool.lru_size]_vars

\* The step is a call that returned after a get_block of it missed with an
\* empty free list and evicted an entry.
ReturnedEvict ==
  /\ pool'.nops = pool.nops + 1 /\ ~pool'.fault
  /\ pool'.last.victim \in Slots

\* C18: the entry a get_block miss with an empty free list evicts holds the
\* cached block whose latest access, hit or load, is the oldest.
C18_EvictsOldest ==
  [][(ReturnedEvict /\ pool.acc # <<>>) =>
       pool.cache[pool'.last.victim].block_number = pool.acc[Len(pool.acc)]]_vars

\* The step evicted entry v while it was dirty.
EvictedDirty(v) ==
  ReturnedEvict /\ v = pool'.last.victim /\ pool.cache[v].dirty_bit

\* Block b is on no list of the pool c and not in its lookup map.
Dropped(c, b, inum) ==
  /\ pci_lookup(c, b, "stale") = NOTFOUND
  /\ \A i \in OnGdl(c) : c.cache[i].block_number # b
  /\ \A k \in 1..Len(c.dirty_list[inum]) : c.dirty_list[inum][k] # b

\* C19: when a get_block evicts a dirty entry, the device block of the victim
\* holds the content last written to it through write_block, and afterwards
\* the victim is absent from the lookup map, from the global dirty list and
\* from the dirty list of its owner.
C19_EvictWritesBack ==
  [][\A v \in Slots :
       EvictedDirty(v) =>
         /\ WrittenBack(v)
         /\ Dropped(pool', pool.cache[v].block_number, pool.cache[v].inode_number)]_vars

\* C20: while the caller goes on using a page pointer a get_block returned,
\* the cache entry behind the pointer is not evicted.
C20_HeldNotEvicted ==
  [][(pool.held # NoRef /\ ReturnedEvict) =>
       pool'.last.victim # pool.held.slot]_vars

\* C21: btree_node_read of a block returns the node btree_node_write stored
\* in it last, in every field, whatever blocks were fetched in between, as
\* long as nothing else wrote to the block.
C21_NodeRoundTrip ==
  [][(Returned("btree_node_read") /\ pool.node[pool'.last.pnum] # NoNode) =>
       pool'.last.buf = pool.node[pool'.last.pnum]]_vars

\* The step is a call of op, whether it returned or faulted.
Called(op) == pool' # pool /\ pool'.last.op = op

\* The allocation bitmap of the pool c: the page of block 0, cached or on the
\* device, as the set of its set bits.
Bitmap(c) ==
  IF 0 \in Cached(c) THEN c.cache[SlotOf(c, 0)].data ELSE c.disk[0]

FreeBlocks(c) == (0..(TotalBlocks - 1)) \ Bitmap(c)

\* C22: alloc_page returns the lowest block index whose bit is clear and sets
\* that bit and no other; when every bit below total_blocks is set it returns
\* -1 and leaves the bitmap as it was.
C22_AllocLowest ==
  [][Called("alloc_page") =>
       /\ ~pool'.fault
       /\ IF FreeBlocks(pool) = {}
          THEN pool'.last.pnum = NOTFOUND /\ Bitmap(pool') = Bitmap(pool)
          ELSE /\ pool'.last.pnum \in FreeBlocks(pool)
               /\ \A b \in FreeBlocks(pool) : pool'.last.pnum <= b
               /\ Bitmap(pool') = Bitmap(pool) \cup {pool'.last.pnum}]_vars

\* C23: free_page(b) clears bit b and no other, leaves the bitmap page dirty,
\* and on a bit that is already clear leaves the bitmap as it was.
C23_FreeClearsBit ==
  [][Called("free_page") =>
       /\ ~pool'.fault
       /\ Bitmap(pool') = Bitmap(pool) \ {pool'.last.pnum}
       /\ 0 \in Cached(pool')
       /\ pool'.cache[SlotOf(pool', 0)].dirty_bit]_vars

\* C24: bit 0 of the allocation bitmap is set in every state reached by
\* btree_insert and btree_delete calls after main's initialisation: block 0 is
\* never freed and never handed out for a node.
C24_BitZeroSet == ~fault => 0 \in used

\* A delete has completed and freed the block of a node, with bit 0 still set.
C24_Witness ==
  /\ Completed("delete") /\ 0 \in used
  /\ \E b \in 1..MaxBlk : b \notin used /\ pg[b].block_number = b

\* C25: after every completed btree_insert or btree_delete the bits set in the
\* bitmap are bit 0 and the bits of the blocks that hold a node reachable from
\* the root.
C25_BitmapIsTree ==
  AfterUpdate => (used \ {0} = Reachable)

\* The step is a call of btree_insert, whether it returned or not.
InsertCalled == nops' = nops + 1 /\ last'.op = "insert"

NoFreeBlock == (0..(total_blocks - 1)) \subseteq used

C27_CleanIsOnDevice ==
  ~pool.fault =>
    \A i \in Slots :
      (pool.cache[i].page_data # NULLP /\ ~pool.cache[i].dirty_bit) =>
        pool.cache[i].data = pool.disk[pool.cache[i].block_number]

\* The step is a call that writes to the cached page of block b: write_block
\* of b, or alloc_page or free_page for b = 0.
Rewrites(b) ==
  \/ Called("write_block") /\ pool'.last.pnum = b
  \/ (Called("alloc_page") \/ Called("free_page")) /\ b = 0

DirtyBlock(c, b) == b \in Cached(c) /\ c.cache[SlotOf(c, b)].dirty_bit

\* C28: a write_block, alloc_page or free_page on a page that is already dirty
\* pushes nothing on the global dirty list: the call returns with the list
\* and gdl_size as they were, so that an entry is on the list once and
\* gdl_size counts the dirty entries.
C28_PushOnFirstDirtying ==
  [][\A b \in Pages :
       (Rewrites(b) /\ DirtyBlock(pool, b)) =>
         /\ ~pool'.fault
         /\ pool'.gdl_size = pool.gdl_size
         /\ OnGdl(pool') = OnGdl(pool)]_vars


\* C29: when main has run its start-up on a fresh image (alloc_page for block
\* 0, then the root created) and no operation has been made yet, the root node
\* is a leaf with num_keys = 0 and parent = 0.
C29_RootStartsLeaf ==
  (nops = 0 /\ ~fault) =>
    /\ pg[RootBlock].is_leaf
    /\ pg[RootBlock].num_keys = 0
    /\ pg[RootBlock].w[PARENT] = 0


\* The children of node n that are set, in slot order.
ChildSeq(n) ==
  SelectSeq([i \in 1..(MAX_KEYS + 1) |-> n.w[CH0 + i - 1]], LAMBDA c : c # 0)

\* btree_insert(root, k, _) called now finds the root as its target, full, and
\* takes the branch that splits it (btr.c:336-346, 355).
SplitsRootFor(k) ==
  /\ btree_insertion_search(btree_node_create(Cur, TRUE).s, RootBlock, k) = RootBlock
  /\ pg[RootBlock].num_keys = MAX_KEYS
  /\ pg[RootBlock].w[PARENT] = 0
  /\ ~(pg[RootBlock].w[KEYS0 + MAX_KEYS - 1] < k /\ pg[RootBlock].w[CH0 + MAX_KEYS] = 0)

\* The root's block holds an internal node of one key over two nodes a and b
\* whose children are, in order, the children in former (the leaf the insert
\* itself adds, block leaf, left aside).
SplitInstalled(p, root, former, leaf) ==
  /\ p[root].block_number = root
  /\ ~p[root].is_leaf
  /\ p[root].num_keys = 1
  /\ Len(ChildSeq(p[root])) = 2
  /\ p[root].w[CH0] \in 1..MaxBlk
  /\ p[root].w[CH0 + 1] \in 1..MaxBlk
  /\ SelectSeq(ChildSeq(p[p[root].w[CH0]]) \o ChildSeq(p[p[root].w[CH0 + 1]]),
               LAMBDA c : c # leaf) = former

\* C30: a btree_insert that splits the full root leaves in the root's block a
\* node of the same block number that is internal, has num_keys = 1 and
\* exactly two children, and these two hold between them the root's former
\* children in their former order.
C30_RootSplitInstalled ==
  [][(InsertCalled /\ SplitsRootFor(last'.key)) =>
       /\ ~fault'
       /\ SplitInstalled(pg', RootBlock, ChildSeq(pg[RootBlock]),
                         alloc_page(Cur).rv)]_vars


\* The block btree_insert(root, k, _) called now reads as its target
\* (btr.c:332-338).
TargetFor(k) == btree_insertion_search(btree_node_create(Cur, TRUE).s, RootBlock, k)

\* btree_insert(root, k, _) called now finds a full target that has a parent
\* and takes the branch that splits it with btree_split_child (btr.c:340-351).
SplitsChildFor(k) ==
  /\ TargetFor(k) \in 1..MaxBlk
  /\ pg[TargetFor(k)].num_keys = MAX_KEYS
  /\ pg[TargetFor(k)].w[PARENT] # 0
  /\ ~(pg[TargetFor(k)].w[KEYS0 + MAX_KEYS - 1] < k
        /\ pg[TargetFor(k)].w[CH0 + MAX_KEYS] = 0)

\* The leaf btree_delete(root, k) called now finds, -1 when it finds none
\* (btr.c:494).
FoundFor(k) == btree_search(Cur, RootBlock, k, MaxDepth + 2)

\* The node btree_remove_key reads as the parent of that leaf (btr.c:441-442,
\* 500).
ParentFor(k) == NodeAt(Cur, NodeAt(Cur, FoundFor(k)).w[PARENT])

\* btree_delete(root, k) called now removes its key from a node that has
\* MIN_KEYS keys and a parent, so that btree_remove_key rebalances
\* (btr.c:447).
RebalancesFor(k) ==
  /\ FoundFor(k) \in 1..MaxBlk
  /\ ~BadBlock(Cur, NodeAt(Cur, FoundFor(k)).w[PARENT])
  /\ ParentFor(k).num_keys = MIN_KEYS
  /\ ParentFor(k).w[PARENT] # 0

\* btree_insert(root, k, _) up to the read of its target (btr.c:332-338), and
\* from there to the return of btree_split_child (btr.c:346-351).
BeforeSplit(k) ==
  read_target([btree_node_create(Cur, TRUE).s
                 EXCEPT !.pg[btree_node_create(Cur, TRUE).rv[2]].key = k,
                        !.pg[btree_node_create(Cur, TRUE).rv[2]].value = 101],
              RootBlock, k)

AfterSplit(k) == insert_split(BeforeSplit(k), Get(BeforeSplit(k), loc_target))

\* In state a the node n (the split node, old before the split) and the node
\* of block nb stand as the two halves of old under the parent p.
SplitHalves(a, old, n, nb, p) ==
  /\ n.num_keys = MIN_KEYS
  /\ nb \in 1..MaxBlk
  /\ a.pg[nb].num_keys = old.num_keys - MIN_KEYS
  /\ ChildSeq(n) \o ChildSeq(a.pg[nb]) = ChildSeq(old)
  /\ \E i \in 0..(MAX_KEYS - 1) :
       p.w[CH0 + i] = n.block_number /\ p.w[CH0 + i + 1] = nb

DeleteCalled == nops' = nops + 1 /\ last'.op = "delete"

\* The siblings of the node btree_delete(root, k) removes its key from.
LeftOf(k) == ParentFor(k).w[LEFT]
RightOf(k) == ParentFor(k).w[RIGHT]

\* Both siblings of that node are there and have more than MIN_KEYS keys.
BothCanLend(k) ==
  /\ LeftOf(k) \in 1..MaxBlk /\ pg[LeftOf(k)].num_keys > MIN_KEYS
  /\ RightOf(k) \in 1..MaxBlk /\ pg[RightOf(k)].num_keys > MIN_KEYS

AfterRebalance(k) ==
  remove_rebalance(
    btree_node_read(Cur, NodeAt(Cur, FoundFor(k)).w[PARENT], loc_root[2]),
    ParentFor(k), k, NOTFOUND).s

\* Neither sibling lends, so that the rebalancing calls btree_merge_children
\* on the grandparent (btr.c:450-458), here the root; MergeIndex is the index
\* it is called with.
MergesFor(k) ==
  /\ RebalancesFor(k)
  /\ ParentFor(k).w[PARENT] = RootBlock
  /\ LeftOf(k) = 0 \/ (LeftOf(k) \in 1..MaxBlk /\ pg[LeftOf(k)].num_keys = MIN_KEYS)
  /\ RightOf(k) = 0 \/ (RightOf(k) \in 1..MaxBlk /\ pg[RightOf(k)].num_keys = MIN_KEYS)

MergeIndex(k) == key_slot(pg[RootBlock], k, 0)

\* The two children btree_merge_children(parent, index) works on.
MergeA(k) == pg[RootBlock].w[CH0 + MergeIndex(k)]
MergeB(k) == pg[RootBlock].w[CH0 + MergeIndex(k) + 1]

MergesPair(k) ==
  /\ MergesFor(k)
  /\ MergeIndex(k) < MAX_KEYS
  /\ MergeA(k) \in 1..MaxBlk /\ pg[MergeA(k)].num_keys = MIN_KEYS
  /\ MergeB(k) \in 1..MaxBlk /\ pg[MergeB(k)].num_keys = MIN_KEYS

KeySeq(n) == [i \in 1..n.num_keys |-> n.w[KEYS0 + i - 1]]

\* In state a the node of block ba holds the keys and the children of the old
\* nodes na and nb, block bb is free and the parent of block bp has lost one
\* key and bb.
Merged(a, na, nb, ba, bb, bp, oldkeys) ==
  /\ a.pg[ba].num_keys <= MAX_KEYS
  /\ KeySeq(a.pg[ba]) = KeySeq(na) \o KeySeq(nb)
  /\ ChildSeq(a.pg[ba]) = ChildSeq(na) \o ChildSeq(nb)
  /\ bb \notin a.used
  /\ a.pg[bp].num_keys = oldkeys - 1
  /\ \A i \in 0..MAX_KEYS : a.pg[bp].w[CH0 + i] # bb

TwoChildRoot ==
  /\ ~pg[RootBlock].is_leaf
  /\ Len(ChildSeq(pg[RootBlock])) = 2
  /\ \A i \in 1..2 : ChildSeq(pg[RootBlock])[i] \in 1..MaxBlk

\* The root's child that remains when btree_delete(root, k) takes the leaf of
\* k, itself a child of the root, away.
OtherChild(k) ==
  IF ChildSeq(pg[RootBlock])[1] = FoundFor(k)
  THEN ChildSeq(pg[RootBlock])[2] ELSE ChildSeq(pg[RootBlock])[1]

LeavesOneChild(k) ==
  /\ TwoChildRoot
  /\ FoundFor(k) \in {ChildSeq(pg[RootBlock])[1], ChildSeq(pg[RootBlock])[2]}
  /\ ChildSeq(pg[RootBlock])[1] # ChildSeq(pg[RootBlock])[2]

\* With pages p and bitmap u the root's block holds node under the root's own
\* block number and parent 0, block child (where node was) is free and every
\* child of the root names the root as its parent.
Promoted(p, u, root, node, child) ==
  /\ p[root] = [node EXCEPT !.block_number = root, !.w[PARENT] = 0]
  /\ child \notin u
  /\ \A i \in 0..MAX_KEYS :
       p[root].w[CH0 + i] # 0 =>
         /\ p[root].w[CH0 + i] \in 1..MaxBlk
         /\ p[p[root].w[CH0 + i]].w[PARENT] = root

\* C34: a btree_delete that leaves the internal root with one child puts the
\* content of that child into the root's page, the root's block number kept
\* and parent = 0, frees the child's block and leaves every child of the new
\* root with the root as parent.
C34_RootPromoted ==
  [][(DeleteCalled /\ LeavesOneChild(last'.key)) =>
       /\ ~fault'
       /\ Promoted(pg', used', RootBlock, pg[OtherChild(last'.key)],
                   OtherChild(last'.key))]_vars


\* C35: after every completed btree_insert or btree_delete the node stored in
\* every block b reachable from the root, read the way btree_node_read reads
\* it, has block_number = b.
C35_BlockNumberIsBlock ==
  AfterUpdate => \A b \in Reachable : pg[b].block_number = b

\* The tree the ascending run leaves: what btree_search answers for each of the
\* keys, and the shape of the root.
AscFinished == fault \/ nops = MaxAsc

AscFinds(k) == btree_search(Cur, RootBlock, k, MaxDepth + 2) \notin {NOTFOUND, FAULTV}

AscShape ==
  /\ ~pg[RootBlock].is_leaf
  /\ Len(ChildSeq(pg[RootBlock])) = 2
  /\ btree_find_height(Cur, RootBlock) = 2
  /\ btree_find_minimum(Cur, RootBlock, MaxDepth + 2) = 1
  /\ FindMax(Cur, RootBlock) = MaxAsc

\* C36: inserting the keys 1..8 in ascending order into the freshly initialised
\* tree runs to its end and leaves a tree whose root is internal with exactly
\* two children, whose height is 2, whose minimum key is 1 and maximum key is 8,
\* and in which btree_search finds each of the keys 1..8.
C36_AscendingRun ==
  AscFinished => (~fault /\ AscShape /\ \A k \in AscKeys : AscFinds(k))

\* The loop of btree_find_depth from block b: it ends at a leaf, at a node
\* without a first child or where it leaves the image.  The walk only reads, so
\* a walk of more than n steps over n blocks is back at a block it has seen and
\* never ends.
RECURSIVE DepthWalkEnds(_, _, _)
DepthWalkEnds(s, b, n) ==
  IF BadBlock(s, b) THEN TRUE
  ELSE LET node == NodeAt(s, b)
       IN IF node.is_leaf \/ node.w[CH0] = 0 THEN TRUE
          ELSE IF n = 0 THEN FALSE
          ELSE DepthWalkEnds(s, node.w[CH0], n - 1)

\* C37: on every tree that btree_insert and btree_delete calls have built, the
\* next btree_insert, btree_delete or btree_search call terminates; the first
\* loop of such a call, the walk of btree_find_depth from the root that steers
\* btree_insertion_search, reaches its end after finitely many steps.
C37_CallsTerminate ==
  ~fault => DepthWalkEnds(Cur, RootBlock, MaxBlk + 1)

\* The blocks d steps below the root.
RECURSIVE AtDepth(_)
AtDepth(d) ==
  IF d = 0 THEN {RootBlock} \cap (1..MaxBlk)
  ELSE UNION {Kids(b) : b \in AtDepth(d - 1)}

\* C38: after every completed btree_insert or btree_delete every leaf reachable
\* from the root is at the depth that btree_find_depth measures along the
\* leftmost path from the root.
C38_LeavesAtOneDepth ==
  AfterUpdate =>
    \A d \in 0..(MaxDepth + 1) : \A b \in AtDepth(d) :
      pg[b].is_leaf => FindDepth(Cur, RootBlock) = d

\* C39: in every state that btree_insert and btree_delete calls reach, no node
\* reachable from the root has num_keys above MAX_KEYS, so that no loop over
\* 0..num_keys-1 touches keys[] at MAX_KEYS or beyond and no loop over
\* 0..num_keys touches children[] beyond MAX_KEYS.
C39_IndicesInRange ==
  ~fault => \A b \in Reachable : pg[b].num_keys <= MAX_KEYS


====
